---- MODULE Spec2Model ----
(***************************************************************************)
(* Tumor nanobot simulation: tumor cells (backend/tumor_environment.py),   *)
(* nanobot agents and the per-tick orchestrator                            *)
(* (backend/nanobot_simulation.py) and the substrate engine                *)
(* (backend/biofvm.py).                                                    *)
(*                                                                         *)
(* Numbers are integers.  Positions lie on one line of the 2-D domain      *)
(* (y is fixed), so a unit direction is -1 or +1 and every distance is an  *)
(* absolute difference.  Times are minutes, drug amounts are drug units.   *)
(***************************************************************************)
EXTENDS Integers, Sequences, FiniteSets, TLC

VARIABLES
    cells,        \* TumorGeometry.tumor_cells: cell id -> TumorCell fields
    vessels,      \* TumorGeometry.vessels: sequence of vessel positions
    nanobots,     \* TumorNanobotModel.nanobots: agent id -> NanobotAgent fields
    api_enabled,  \* TumorNanobotModel: io_client is set and api_enabled is true
    source_sink,  \* SubstrateField.source_sink of the model's fields, per voxel
    microenv,     \* a Microenvironment, built on its own or by the model
    model,        \* TumorNanobotModel: step_count, queen, metrics, last tick
    errors,       \* TumorNanobotModel.errors: the messages log_error appended
    last          \* the operation that produced the current state

vars == <<cells, vessels, nanobots, api_enabled, source_sink, microenv, model, errors, last>>

----------------------------------------------------------------------------
(* Program constants *)

hypoxic_threshold == 5
necrotic_time_threshold == 30
drug_sensitivity == 1
lethal_drug_dose == 100
oxygen_uptake_rate == 10

NoRef == 0

----------------------------------------------------------------------------
(* Bounds and input sets *)

CellIds == {1, 2}

\* oxygen_concentration arguments: below, just below, at and above the threshold
OxygenLevels == {0, 4, 5, 38}
\* dt arguments (minutes) of the cell update methods
Timesteps == {10, 20}
\* drug_concentration arguments of absorb_drug
DrugLevels == {0, 30, 50}
\* amount arguments of accumulate_drug
DrugAmounts == {20, 60, 100}
\* the positions generate_circular_tumor gave the cells
cell_position(c) == 20 * c
CellPositions == {cell_position(c) : c \in CellIds}

Abs(x) == IF x < 0 THEN -x ELSE x
Min(a, b) == IF a < b THEN a ELSE b
Max(a, b) == IF a > b THEN a ELSE b

----------------------------------------------------------------------------
(* TumorCell *)

\* TumorCell.__init__ as called by generate_circular_tumor
TumorCell(position, initial_phase) ==
    [position |-> position,
     phase |-> initial_phase,
     hypoxic_duration |-> 0,
     accumulated_drug |-> 0,
     is_alive |-> TRUE,
     time_of_death |-> "none"]

update_oxygen_status_necrosis_at_threshold(cell, oxygen_concentration, dt) ==
    IF ~cell.is_alive THEN cell
    ELSE IF oxygen_concentration < hypoxic_threshold
    THEN LET d == cell.hypoxic_duration + dt IN
         IF d >= necrotic_time_threshold
         THEN [cell EXCEPT !.phase = "necrotic", !.hypoxic_duration = d,
                           !.is_alive = FALSE, !.time_of_death = "necrosis"]
         ELSE [cell EXCEPT !.phase = "hypoxic", !.hypoxic_duration = d]
    ELSE IF cell.phase = "hypoxic"
         THEN [cell EXCEPT !.phase = "viable", !.hypoxic_duration = 0]
         ELSE cell

update_oxygen_status_keeps_duration(cell, oxygen_concentration, dt) ==
    IF ~cell.is_alive THEN cell
    ELSE IF oxygen_concentration < hypoxic_threshold
    THEN LET d == cell.hypoxic_duration + dt IN
         IF d > necrotic_time_threshold
         THEN [cell EXCEPT !.phase = "necrotic", !.hypoxic_duration = d,
                           !.is_alive = FALSE, !.time_of_death = "necrosis"]
         ELSE [cell EXCEPT !.phase = "hypoxic", !.hypoxic_duration = d]
    ELSE IF cell.phase = "hypoxic"
         THEN [cell EXCEPT !.phase = "viable"]
         ELSE cell

\* the mutant of update_oxygen_status whose necrotic cell is left alive
update_oxygen_status_necrotic_stays_alive(cell, oxygen_concentration, dt) ==
    IF ~cell.is_alive THEN cell
    ELSE IF oxygen_concentration < hypoxic_threshold
    THEN LET d == cell.hypoxic_duration + dt IN
         IF d > necrotic_time_threshold
         THEN [cell EXCEPT !.phase = "necrotic", !.hypoxic_duration = d]
         ELSE [cell EXCEPT !.phase = "hypoxic", !.hypoxic_duration = d]
    ELSE IF cell.phase = "hypoxic"
         THEN [cell EXCEPT !.phase = "viable", !.hypoxic_duration = 0]
         ELSE cell

update_oxygen_status(cell, oxygen_concentration, dt) ==
    IF ~cell.is_alive THEN cell
    ELSE IF oxygen_concentration < hypoxic_threshold
    THEN LET d == cell.hypoxic_duration + dt IN
         IF d > necrotic_time_threshold
         THEN [cell EXCEPT !.phase = "necrotic", !.hypoxic_duration = d,
                           !.is_alive = FALSE, !.time_of_death = "necrosis"]
         ELSE [cell EXCEPT !.phase = "hypoxic", !.hypoxic_duration = d]
    ELSE IF cell.phase = "hypoxic"
         THEN [cell EXCEPT !.phase = "viable", !.hypoxic_duration = 0]
         ELSE cell

absorb_drug_without_alive_check(cell, drug_concentration, dt) ==
    LET drug_absorbed == (drug_concentration * drug_sensitivity * dt) \div 10
        acc == cell.accumulated_drug + drug_absorbed
    IN  IF acc >= lethal_drug_dose
        THEN [cell EXCEPT !.accumulated_drug = acc, !.phase = "apoptotic",
                          !.is_alive = FALSE, !.time_of_death = "apoptosis"]
        ELSE [cell EXCEPT !.accumulated_drug = acc]

absorb_drug_lethal_above_dose(cell, drug_concentration, dt) ==
    IF ~cell.is_alive THEN cell
    ELSE LET drug_absorbed == (drug_concentration * drug_sensitivity * dt) \div 10
             acc == cell.accumulated_drug + drug_absorbed
         IN  IF acc > lethal_drug_dose
             THEN [cell EXCEPT !.accumulated_drug = acc, !.phase = "apoptotic",
                               !.is_alive = FALSE, !.time_of_death = "apoptosis"]
             ELSE [cell EXCEPT !.accumulated_drug = acc]

\* drug_absorbed = drug_concentration * drug_sensitivity * dt * 0.1
absorb_drug(cell, drug_concentration, dt) ==
    IF ~cell.is_alive THEN cell
    ELSE LET drug_absorbed == (drug_concentration * drug_sensitivity * dt) \div 10
             acc == cell.accumulated_drug + drug_absorbed
         IN  IF acc >= lethal_drug_dose
             THEN [cell EXCEPT !.accumulated_drug = acc, !.phase = "apoptotic",
                               !.is_alive = FALSE, !.time_of_death = "apoptosis"]
             ELSE [cell EXCEPT !.accumulated_drug = acc]

\* accumulate_drug(amount): the direct-dose pathway; the result of the call
\* (cell_killed) is that the cell died in it.
accumulate_drug(cell, amount) ==
    IF ~cell.is_alive THEN cell
    ELSE LET acc == cell.accumulated_drug + amount
         IN  IF acc >= lethal_drug_dose
             THEN [cell EXCEPT !.accumulated_drug = acc, !.phase = "apoptotic",
                               !.is_alive = FALSE, !.time_of_death = "apoptosis"]
             ELSE [cell EXCEPT !.accumulated_drug = acc]

\* ten times the rate, so that the hypoxic fraction 0.3 stays an integer
get_oxygen_consumption_x10(cell) ==
    IF ~cell.is_alive THEN 0
    ELSE IF cell.phase = "viable" THEN oxygen_uptake_rate * 10
    ELSE IF cell.phase = "hypoxic" THEN oxygen_uptake_rate * 3
    ELSE 0

----------------------------------------------------------------------------
(* A geometry's cells driven by direct calls of the cell methods *)

\* generate_circular_tumor: every cell starts alive, Hypoxic or Viable
GeneratedCells ==
    { f \in [CellIds -> {TumorCell(p, ph) : p \in CellPositions, ph \in {"viable", "hypoxic"}}] :
        \A c \in CellIds : f[c].position = cell_position(c) }

NoOp == [op |-> "init", id |-> 0]

InitCell ==
    /\ cells \in GeneratedCells
    /\ vessels = <<>>
    /\ nanobots = <<>>
    /\ api_enabled = FALSE
    /\ source_sink = <<>>
    /\ microenv = <<>>
    /\ model = <<>>
    /\ errors = <<>>
    /\ last = NoOp

UpdateOxygenStatus(c, o, dt) ==
    /\ cells' = [cells EXCEPT ![c] = update_oxygen_status(cells[c], o, dt)]
    /\ last' = [op |-> "update_oxygen_status", id |-> c]
    /\ UNCHANGED <<vessels, nanobots, api_enabled, source_sink, microenv, model, errors>>

AbsorbDrug(c, d, dt) ==
    /\ cells' = [cells EXCEPT ![c] = absorb_drug(cells[c], d, dt)]
    /\ last' = [op |-> "absorb_drug", id |-> c]
    /\ UNCHANGED <<vessels, nanobots, api_enabled, source_sink, microenv, model, errors>>

AccumulateDrug(c, amount) ==
    /\ cells' = [cells EXCEPT ![c] = accumulate_drug(cells[c], amount)]
    /\ last' = [op |-> "accumulate_drug", id |-> c]
    /\ UNCHANGED <<vessels, nanobots, api_enabled, source_sink, microenv, model, errors>>

NextCell ==
    \/ \E c \in CellIds, o \in OxygenLevels, dt \in Timesteps : UpdateOxygenStatus(c, o, dt)
    \/ \E c \in CellIds, d \in DrugLevels, dt \in Timesteps : AbsorbDrug(c, d, dt)
    \/ \E c \in CellIds, amount \in DrugAmounts : AccumulateDrug(c, amount)

SpecCell == InitCell /\ [][NextCell]_vars

----------------------------------------------------------------------------
(* Claims about the cell *)

\* C2: over any sequence of update_oxygen_status / absorb_drug /
\* accumulate_drug calls a cell never goes Necrotic -> Viable, never leaves
\* Apoptotic, and becomes Necrotic only in a call that leaves its
\* accumulated hypoxic duration above the necrosis-time threshold.
CellMonotonicStep(c) ==
    /\ cells[c].phase = "necrotic" => cells'[c].phase # "viable"
    /\ cells[c].phase = "apoptotic" => cells'[c].phase = "apoptotic"
    /\ (cells[c].phase # "necrotic" /\ cells'[c].phase = "necrotic")
          => cells'[c].hypoxic_duration > necrotic_time_threshold

C2_CellMonotonicity == [][\A c \in CellIds : CellMonotonicStep(c)]_vars

\* a Hypoxic cell became Necrotic by update_oxygen_status, another is Apoptotic
C2_Witness ==
    /\ last.op = "update_oxygen_status"
    /\ cells[last.id].phase = "necrotic"
    /\ \E c \in CellIds : cells[c].phase = "apoptotic"

\* C3: once is_alive is false it stays false, every later call leaves the
\* cell's fields unchanged and its oxygen consumption is 0; so is_alive goes
\* from true to false at most once.
DeadCellFrozenStep(c) ==
    ~cells[c].is_alive =>
        /\ cells'[c] = cells[c]
        /\ get_oxygen_consumption_x10(cells'[c]) = 0

C3_DeathExclusivity == [][\A c \in CellIds : DeadCellFrozenStep(c)]_vars

\* a dead cell has just been called with absorb_drug
C3_Witness ==
    /\ last.op = "absorb_drug"
    /\ ~cells[last.id].is_alive
    /\ cells[last.id].time_of_death = "necrosis"
    /\ cells[last.id].accumulated_drug > 0

\* C31: after every absorb_drug or accumulate_drug call a cell that is still
\* alive has a dose strictly below the lethal dose; a living cell, Viable or
\* Hypoxic, whose dose reaches the lethal dose is Apoptotic, dead and tagged
\* apoptosis when that call returns.
LethalDoseStep(c) ==
    (last'.op \in {"absorb_drug", "accumulate_drug"} /\ last'.id = c)
    => /\ cells'[c].is_alive => cells'[c].accumulated_drug < lethal_drug_dose
       /\ (cells[c].is_alive /\ cells'[c].accumulated_drug >= lethal_drug_dose)
          => /\ cells'[c].phase = "apoptotic"
             /\ ~cells'[c].is_alive
             /\ cells'[c].time_of_death = "apoptosis"

C31_LethalDoseKills == [][\A c \in CellIds : LethalDoseStep(c)]_vars

\* absorb_drug has brought a cell that was Hypoxic for 20 minutes to exactly
\* the lethal dose, and the cell is Apoptotic
C31_Witness ==
    /\ last.op = "absorb_drug"
    /\ cells[last.id].phase = "apoptotic"
    /\ cells[last.id].accumulated_drug = lethal_drug_dose
    /\ cells[last.id].hypoxic_duration = 20

----------------------------------------------------------------------------
(* Microenvironment mesh of TumorNanobotModel and the accumulators *)

\* TumorNanobotModel(domain_size, voxel_size): x_range = (0, domain_size)
domain_size == 60
voxel_size == 20

\* Microenvironment.__init__: nx = int((x_range[1] - x_range[0]) / dx) + 1
nx == (domain_size \div voxel_size) + 1

Voxels == 0 .. (nx - 1)

\* the substrates TumorNanobotModel.__init__ registers
SubstrateNames == {"oxygen", "drug", "trail", "alarm", "recruitment"}

\* int() truncates toward zero
TruncDiv(a, b) == IF a >= 0 THEN a \div b ELSE -((-a) \div b)

clip(x, lo, hi) == IF x < lo THEN lo ELSE IF x > hi THEN hi ELSE x

\* Microenvironment.position_to_voxel, the x index
position_to_voxel(x) == clip(TruncDiv(x - 0, voxel_size), 0, nx - 1)

\* SubstrateField.add_source: ignored when the voxel is outside the grid
add_source(ss, name, voxel, amount) ==
    IF voxel \in Voxels
    THEN [ss EXCEPT ![name][voxel] = @ + amount]
    ELSE ss

\* SubstrateField.add_sink
add_sink(ss, name, voxel, amount) ==
    IF voxel \in Voxels
    THEN [ss EXCEPT ![name][voxel] = @ - amount]
    ELSE ss

ZeroSources == [name \in SubstrateNames |-> [v \in Voxels |-> 0]]

\* Microenvironment.reset_all_sources_sinks
reset_all_sources_sinks(ss) == [name \in DOMAIN ss |-> [v \in DOMAIN ss[name] |-> 0]]

----------------------------------------------------------------------------
(* TumorGeometry queries *)

get_living_cells(cs) == {c \in DOMAIN cs : cs[c].is_alive}

get_cells_in_phase(cs, phase) == {c \in DOMAIN cs : cs[c].phase = phase}

\* np.argmin over the vessel list: the first vessel at the least distance
find_nearest_vessel(vs, x) ==
    IF Len(vs) = 0 THEN NoRef
    ELSE CHOOSE i \in 1 .. Len(vs) :
            \A j \in 1 .. Len(vs) :
                \/ Abs(x - vs[i]) < Abs(x - vs[j])
                \/ Abs(x - vs[i]) = Abs(x - vs[j]) /\ i <= j

----------------------------------------------------------------------------
(* NanobotAgent *)

initial_payload == 100
max_payload == 100
speed == 10
reload_rate == 20
delivery_per_step == 100
min_payload == 10
search_radius == 30
llm_search_radius == 50
delivery_distance == 5
vessel_distance == 10
trail_deposit == 3
alarm_deposit == 5

NanobotState == {"searching", "targeting", "delivering", "returning", "reloading"}
LLMActions == {"target", "follow_trail", "explore", "return"}

\* NanobotAgent.__init__
NanobotAgent(position, is_llm_controlled) ==
    [position |-> position,
     state |-> "searching",
     drug_payload |-> initial_payload,
     target_cell |-> NoRef,
     target_vessel |-> NoRef,
     deliveries_made |-> 0,
     total_drug_delivered |-> 0,
     is_llm_controlled |-> is_llm_controlled]

clamp_position_unclamped(x) == x

\* NanobotAgent._clamp_position: np.clip to x_range
clamp_position(x) == clip(x, 0, domain_size)

\* cell.required_drug_threshold: the dose that kills the cell
required_drug_threshold(cell) == lethal_drug_dose

\* score = distance + (accumulated_drug / required_drug_threshold) * 50,
\* multiplied by the threshold; min() keeps the first of equal scores
find_nearest_hypoxic_cell(x, cs, max_distance) ==
    LET living == get_living_cells(cs)
        hypoxic == {c \in living : cs[c].phase = "hypoxic"}
        pool == IF hypoxic # {} THEN hypoxic ELSE living
        candidates == {c \in pool : Abs(cs[c].position - x) <= max_distance}
        score(c) == Abs(cs[c].position - x) * required_drug_threshold(cs[c])
                    + cs[c].accumulated_drug * 50
    IN  IF candidates = {} THEN NoRef
        ELSE CHOOSE c \in candidates :
                \A d \in candidates :
                    score(c) < score(d) \/ (score(c) = score(d) /\ c <= d)

\* the result of a handler: the agent, the cells and the accumulators, and
\* whether an exception left the handler
Outcome(bot, cs, ss) == [bot |-> bot, cells |-> cs, ss |-> ss, raised |-> FALSE]
Raised(bot, cs, ss) == [bot |-> bot, cells |-> cs, ss |-> ss, raised |-> TRUE]

\* what the external policy call does: it answers one of the four actions,
\* answers something else, raises, times out, or finds no client for the
\* selected model
LLMFailures == {"raises", "timeout", "no_client"}
LLMOutcomes == LLMActions \cup {"invalid"} \cup LLMFailures

\* TumorNanobotModel.log_error: self.errors.append(message)
log_error(errs, message) == Append(errs, message)

\* NanobotAgent._ask_llm_for_decision: every failure is caught inside, logged
\* and answered by 'explore'; an answer outside the four actions is 'explore'.
\* One message stands for the texts the function logs.
ask_llm_for_decision(outcome) ==
    IF outcome \in LLMFailures
    THEN [action |-> "explore", errors |-> log_error(<<>>, "LLM call failed for Nanobot")]
    ELSE [action |-> IF outcome \in LLMActions THEN outcome ELSE "explore",
          errors |-> <<>>]

search_for_target_return_action(n, cs, ss, guidance, outcome, trail, direction) ==
    LET llm == n.is_llm_controlled /\ api_enabled
        action == ask_llm_for_decision(outcome).action
        llm_target == find_nearest_hypoxic_cell(n.position, cs, llm_search_radius)
        moved == clamp_position(n.position + direction * speed)
        nearby_cell == find_nearest_hypoxic_cell(moved, cs, search_radius)
        alarmed == IF llm /\ action = "follow_trail" /\ trail # 0
                   THEN add_source(ss, "alarm", position_to_voxel(n.position), alarm_deposit)
                   ELSE ss
    IN  IF guidance # 0
        THEN Raised(n, cs, ss)
        ELSE IF llm /\ action = "target" /\ llm_target # NoRef
        THEN Outcome([n EXCEPT !.target_cell = llm_target, !.state = "targeting"], cs, ss)
        ELSE IF llm /\ action = "return"
        THEN Outcome([n EXCEPT !.state = "returning"], cs, ss)
        ELSE IF nearby_cell # NoRef /\ n.drug_payload > min_payload
        THEN Outcome([n EXCEPT !.position = moved, !.target_cell = nearby_cell,
                               !.state = "targeting"], cs, alarmed)
        ELSE Outcome([n EXCEPT !.position = moved], cs, alarmed)

search_for_target_failure_escapes(n, cs, ss, guidance, outcome, trail, direction) ==
    LET llm == n.is_llm_controlled /\ api_enabled
        action == ask_llm_for_decision(outcome).action
        llm_target == find_nearest_hypoxic_cell(n.position, cs, llm_search_radius)
        moved == clamp_position(n.position + direction * speed)
        nearby_cell == find_nearest_hypoxic_cell(moved, cs, search_radius)
        alarmed == IF llm /\ action = "follow_trail" /\ trail # 0
                   THEN add_source(ss, "alarm", position_to_voxel(n.position), alarm_deposit)
                   ELSE ss
    IN  IF guidance # 0
        THEN Raised(n, cs, ss)
        ELSE IF llm /\ outcome \notin LLMActions
        THEN Raised(n, cs, ss)
        ELSE IF llm /\ action = "target" /\ llm_target # NoRef
        THEN Outcome([n EXCEPT !.target_cell = llm_target, !.state = "targeting"], cs, ss)
        ELSE IF nearby_cell # NoRef /\ n.drug_payload > min_payload
        THEN Outcome([n EXCEPT !.position = moved, !.target_cell = nearby_cell,
                               !.state = "targeting"], cs, alarmed)
        ELSE Outcome([n EXCEPT !.position = moved], cs, alarmed)

\* guidance: 0 when the mapping has no entry for the agent, else the unit
\* direction; outcome: what the external policy call does; trail: the sign of
\* the trail gradient (0: none); direction: the normalised chemotaxis
\* direction, or the random direction when the gradients sum to zero.
\* self.position has three components and a guided or trail direction two:
\* "self.position += direction * self.speed" raises ValueError before it
\* writes.  The guided move is outside the try block, so the exception
\* leaves the step; the trail move is inside, so the except block logs it,
\* adds the alarm source and the step goes on with the chemotaxis move.
search_for_target(n, cs, ss, guidance, outcome, trail, direction) ==
    LET llm == n.is_llm_controlled /\ api_enabled
        action == ask_llm_for_decision(outcome).action
        llm_target == find_nearest_hypoxic_cell(n.position, cs, llm_search_radius)
        moved == clamp_position(n.position + direction * speed)
        nearby_cell == find_nearest_hypoxic_cell(moved, cs, search_radius)
        alarmed == IF llm /\ action = "follow_trail" /\ trail # 0
                   THEN add_source(ss, "alarm", position_to_voxel(n.position), alarm_deposit)
                   ELSE ss
    IN  IF guidance # 0
        THEN Raised(n, cs, ss)
        ELSE IF llm /\ action = "target" /\ llm_target # NoRef
        THEN Outcome([n EXCEPT !.target_cell = llm_target, !.state = "targeting"], cs, ss)
        ELSE IF nearby_cell # NoRef /\ n.drug_payload > min_payload
        THEN Outcome([n EXCEPT !.position = moved, !.target_cell = nearby_cell,
                               !.state = "targeting"], cs, alarmed)
        ELSE Outcome([n EXCEPT !.position = moved], cs, alarmed)

move_toward_target(n, cs, ss) ==
    IF n.target_cell = NoRef \/ ~cs[n.target_cell].is_alive
    THEN Outcome([n EXCEPT !.target_cell = NoRef, !.state = "searching"], cs, ss)
    ELSE LET direction == cs[n.target_cell].position - n.position
             distance == Abs(direction)
         IN  IF distance < delivery_distance
             THEN Outcome([n EXCEPT !.state = "delivering"], cs, ss)
             ELSE Outcome([n EXCEPT !.position =
                              clamp_position(n.position + (direction \div distance) * speed)],
                          cs, ss)

deliver_drug_fixed_amount(n, cs, ss) ==
    IF n.target_cell = NoRef \/ ~cs[n.target_cell].is_alive
    THEN Outcome([n EXCEPT !.target_cell = NoRef, !.state = "searching"], cs, ss)
    ELSE LET voxel == position_to_voxel(n.position)
             delivery_amount == delivery_per_step
             payload == n.drug_payload - delivery_amount
             cell == accumulate_drug(cs[n.target_cell], delivery_amount)
             ss1 == add_source(add_source(ss, "drug", voxel, delivery_amount),
                                "trail", voxel, trail_deposit)
             n1 == [n EXCEPT !.drug_payload = payload,
                             !.total_drug_delivered = @ + delivery_amount]
         IN  IF ~cell.is_alive \/ payload < min_payload
             THEN Outcome([n1 EXCEPT !.deliveries_made = @ + 1,
                                     !.target_cell = NoRef,
                                     !.target_vessel = find_nearest_vessel(vessels, n.position),
                                     !.state = "returning"],
                          [cs EXCEPT ![n.target_cell] = cell], ss1)
             ELSE Outcome(n1, [cs EXCEPT ![n.target_cell] = cell], ss1)

deliver_drug_half_release(n, cs, ss) ==
    IF n.target_cell = NoRef \/ ~cs[n.target_cell].is_alive
    THEN Outcome([n EXCEPT !.target_cell = NoRef, !.state = "searching"], cs, ss)
    ELSE LET voxel == position_to_voxel(n.position)
             release == n.drug_payload > 0
             delivery_amount == IF release THEN Min(n.drug_payload, 50) ELSE 0
             payload == n.drug_payload - delivery_amount
             cell == IF release
                     THEN accumulate_drug(cs[n.target_cell], delivery_amount)
                     ELSE cs[n.target_cell]
             ss1 == IF release
                    THEN add_source(add_source(ss, "drug", voxel, delivery_amount),
                                    "trail", voxel, trail_deposit)
                    ELSE ss
             n1 == [n EXCEPT !.drug_payload = payload,
                             !.total_drug_delivered = @ + delivery_amount]
         IN  IF ~cell.is_alive \/ payload < min_payload
             THEN Outcome([n1 EXCEPT !.deliveries_made = @ + 1,
                                     !.target_cell = NoRef,
                                     !.target_vessel = find_nearest_vessel(vessels, n.position),
                                     !.state = "returning"],
                          [cs EXCEPT ![n.target_cell] = cell], ss1)
             ELSE Outcome(n1, [cs EXCEPT ![n.target_cell] = cell], ss1)

deliver_drug_without_trail(n, cs, ss) ==
    IF n.target_cell = NoRef \/ ~cs[n.target_cell].is_alive
    THEN Outcome([n EXCEPT !.target_cell = NoRef, !.state = "searching"], cs, ss)
    ELSE LET voxel == position_to_voxel(n.position)
             release == n.drug_payload > 0
             delivery_amount == IF release THEN Min(n.drug_payload, delivery_per_step) ELSE 0
             payload == n.drug_payload - delivery_amount
             cell == IF release
                     THEN accumulate_drug(cs[n.target_cell], delivery_amount)
                     ELSE cs[n.target_cell]
             ss1 == IF release
                    THEN add_source(ss, "drug", voxel, delivery_amount)
                    ELSE ss
             n1 == [n EXCEPT !.drug_payload = payload,
                             !.total_drug_delivered = @ + delivery_amount]
         IN  IF ~cell.is_alive \/ payload < min_payload
             THEN Outcome([n1 EXCEPT !.deliveries_made = @ + 1,
                                     !.target_cell = NoRef,
                                     !.target_vessel = find_nearest_vessel(vessels, n.position),
                                     !.state = "returning"],
                          [cs EXCEPT ![n.target_cell] = cell], ss1)
             ELSE Outcome(n1, [cs EXCEPT ![n.target_cell] = cell], ss1)

deliver_drug_to_dead_target(n, cs, ss) ==
    IF n.target_cell = NoRef
    THEN Outcome([n EXCEPT !.target_cell = NoRef, !.state = "searching"], cs, ss)
    ELSE LET voxel == position_to_voxel(n.position)
             release == n.drug_payload > 0
             delivery_amount == IF release THEN Min(n.drug_payload, delivery_per_step) ELSE 0
             payload == n.drug_payload - delivery_amount
             cell == IF release
                     THEN accumulate_drug(cs[n.target_cell], delivery_amount)
                     ELSE cs[n.target_cell]
             ss1 == IF release
                    THEN add_source(add_source(ss, "drug", voxel, delivery_amount),
                                    "trail", voxel, trail_deposit)
                    ELSE ss
             n1 == [n EXCEPT !.drug_payload = payload,
                             !.total_drug_delivered = @ + delivery_amount]
         IN  IF ~cell.is_alive \/ payload < min_payload
             THEN Outcome([n1 EXCEPT !.deliveries_made = @ + 1,
                                     !.target_cell = NoRef,
                                     !.target_vessel = find_nearest_vessel(vessels, n.position),
                                     !.state = "returning"],
                          [cs EXCEPT ![n.target_cell] = cell], ss1)
             ELSE Outcome(n1, [cs EXCEPT ![n.target_cell] = cell], ss1)

deliver_drug(n, cs, ss) ==
    IF n.target_cell = NoRef \/ ~cs[n.target_cell].is_alive
    THEN Outcome([n EXCEPT !.target_cell = NoRef, !.state = "searching"], cs, ss)
    ELSE LET voxel == position_to_voxel(n.position)
             release == n.drug_payload > 0
             delivery_amount == IF release THEN Min(n.drug_payload, delivery_per_step) ELSE 0
             payload == n.drug_payload - delivery_amount
             cell == IF release
                     THEN accumulate_drug(cs[n.target_cell], delivery_amount)
                     ELSE cs[n.target_cell]
             ss1 == IF release
                    THEN add_source(add_source(ss, "drug", voxel, delivery_amount),
                                    "trail", voxel, trail_deposit)
                    ELSE ss
             n1 == [n EXCEPT !.drug_payload = payload,
                             !.total_drug_delivered = @ + delivery_amount]
         IN  IF ~cell.is_alive \/ payload < min_payload
             THEN Outcome([n1 EXCEPT !.deliveries_made = @ + 1,
                                     !.target_cell = NoRef,
                                     !.target_vessel = find_nearest_vessel(vessels, n.position),
                                     !.state = "returning"],
                          [cs EXCEPT ![n.target_cell] = cell], ss1)
             ELSE Outcome(n1, [cs EXCEPT ![n.target_cell] = cell], ss1)

return_to_vessel_keeps_waiting(n, cs, ss) ==
    LET tv == IF n.target_vessel = NoRef
              THEN find_nearest_vessel(vessels, n.position)
              ELSE n.target_vessel
    IN  IF tv = NoRef
        THEN Outcome(n, cs, ss)
        ELSE LET direction == vessels[tv] - n.position
                 distance == Abs(direction)
             IN  IF distance < vessel_distance
                 THEN Outcome([n EXCEPT !.target_vessel = tv, !.state = "reloading"], cs, ss)
                 ELSE Outcome([n EXCEPT !.target_vessel = tv, !.position =
                                  clamp_position(n.position + (direction \div distance) * speed)],
                              cs, ss)

return_to_vessel(n, cs, ss) ==
    LET tv == IF n.target_vessel = NoRef
              THEN find_nearest_vessel(vessels, n.position)
              ELSE n.target_vessel
    IN  IF tv = NoRef
        THEN Outcome([n EXCEPT !.state = "searching"], cs, ss)
        ELSE LET direction == vessels[tv] - n.position
                 distance == Abs(direction)
             IN  IF distance < vessel_distance
                 THEN Outcome([n EXCEPT !.target_vessel = tv, !.state = "reloading"], cs, ss)
                 ELSE Outcome([n EXCEPT !.target_vessel = tv, !.position =
                                  clamp_position(n.position + (direction \div distance) * speed)],
                              cs, ss)

reload_drug_above_threshold(n, cs, ss) ==
    LET payload == Min(n.drug_payload + reload_rate, max_payload)
    IN  IF payload * 10 > max_payload * 9
        THEN Outcome([n EXCEPT !.drug_payload = payload, !.target_vessel = NoRef,
                               !.state = "searching"], cs, ss)
        ELSE Outcome([n EXCEPT !.drug_payload = payload], cs, ss)

\* the 90% test, drug_payload >= max_payload * 0.9, in tenths
\* the mutant of _reload_drug that keeps the vessel when the reload is over
reload_drug_keeps_vessel(n, cs, ss) ==
    LET payload == Min(n.drug_payload + reload_rate, max_payload)
    IN  IF payload * 10 >= max_payload * 9
        THEN Outcome([n EXCEPT !.drug_payload = payload, !.state = "searching"], cs, ss)
        ELSE Outcome([n EXCEPT !.drug_payload = payload], cs, ss)

reload_drug(n, cs, ss) ==
    LET payload == Min(n.drug_payload + reload_rate, max_payload)
    IN  IF payload * 10 >= max_payload * 9
        THEN Outcome([n EXCEPT !.drug_payload = payload, !.target_vessel = NoRef,
                               !.state = "searching"], cs, ss)
        ELSE Outcome([n EXCEPT !.drug_payload = payload], cs, ss)

\* the messages one NanobotAgent.step appends to the model's errors: those of
\* the policy call, made by an unguided Searching agent under policy control,
\* and the one of the except block around it
step_errors(n, guidance, outcome, trail) ==
    IF n.state = "searching" /\ guidance = 0 /\ n.is_llm_controlled /\ api_enabled
    THEN LET answer == ask_llm_for_decision(outcome)
         IN  IF answer.action = "follow_trail" /\ trail # 0
             THEN log_error(answer.errors, "Nanobot LLM call failed")
             ELSE answer.errors
    ELSE <<>>

\* NanobotAgent.step: the state machine
step(n, cs, ss, guidance, outcome, trail, direction) ==
    CASE n.state = "reloading" -> reload_drug(n, cs, ss)
      [] n.state = "delivering" -> deliver_drug(n, cs, ss)
      [] n.state = "returning" -> return_to_vessel(n, cs, ss)
      [] n.state = "targeting" -> move_toward_target(n, cs, ss)
      [] OTHER -> search_for_target(n, cs, ss, guidance, outcome, trail, direction)

----------------------------------------------------------------------------
(* Agents stepped one at a time over a geometry, beside direct cell updates *)

AgentIds == {1}

\* deliveries an agent makes, and trail and alarm sources between two
\* accumulator resets
MaxDeliveries == 2
MaxDeposits == 1

\* vessel positions _generate_peripheral_vasculature may give, none included
VesselLayouts == {<<>>, <<10>>, <<50, 10>>}
\* start positions: a vessel plus an offset (not clamped), or a domain point
StartPositions == {3, 30, 65}
AgentTypes == {"LLM-Powered", "Rule-Based", "Hybrid"}

Directions == {-1, 1}
Guidances == {-1, 0, 1}
TrailSigns == {-1, 0, 1}

\* TumorNanobotModel.__init__: is_llm by agent_type, Hybrid: i < n_nanobots // 2
is_llm_of(agent_type, a) ==
    IF agent_type = "Hybrid" THEN (a - 1) < (Cardinality(AgentIds) \div 2)
    ELSE agent_type = "LLM-Powered"

Init ==
    /\ cells \in GeneratedCells
    /\ vessels \in VesselLayouts
    /\ \E agent_type \in AgentTypes : \E start \in [AgentIds -> StartPositions] :
          nanobots = [a \in AgentIds |-> NanobotAgent(start[a], is_llm_of(agent_type, a))]
    /\ api_enabled \in BOOLEAN
    /\ source_sink = ZeroSources
    /\ microenv = <<>>
    /\ model = <<>>
    /\ errors = <<>>
    /\ last = NoOp

\* the trail and alarm sources added since the accumulators were reset
Deposits(ss) == LET Sum[v \in -1 .. (nx - 1)] ==
                        IF v = -1 THEN 0 ELSE Sum[v - 1] + ss["trail"][v]
                    Alarm[v \in -1 .. (nx - 1)] ==
                        IF v = -1 THEN 0 ELSE Alarm[v - 1] + ss["alarm"][v]
                IN  Sum[nx - 1] \div trail_deposit + Alarm[nx - 1] \div alarm_deposit

\* the inputs one step reads: all of them while Searching (only the guided
\* direction when guided; the trail gradient when the trail is to be
\* followed), none in the other states; action is what the external policy
\* call does
NoInput == [guidance |-> 0, action |-> "explore", trail |-> 0, direction |-> 1]

StepInputs(n) ==
    IF n.state # "searching" THEN {NoInput}
    ELSE {[NoInput EXCEPT !.guidance = g] : g \in Guidances \ {0}}
         \cup {[NoInput EXCEPT !.direction = d] : d \in Directions}
         \cup IF n.is_llm_controlled /\ api_enabled
              THEN {[NoInput EXCEPT !.action = o, !.direction = d] :
                        o \in LLMOutcomes, d \in Directions}
                   \cup {[NoInput EXCEPT !.action = "follow_trail", !.trail = t,
                                          !.direction = d] :
                            t \in TrailSigns \ {0}, d \in Directions}
              ELSE {}

\* a trail gradient needs a trail, and only a release lays one
trail_laid(bots) == \E b \in DOMAIN bots : bots[b].total_drug_delivered > 0

AgentStep(a, in) ==
    /\ in.trail # 0 => trail_laid(nanobots)
    /\ nanobots[a].state = "delivering" =>
          /\ nanobots[a].deliveries_made < MaxDeliveries
          /\ Deposits(source_sink) < MaxDeposits
    /\ errors = <<>>
    /\ LET r == step(nanobots[a], cells, source_sink,
                     in.guidance, in.action, in.trail, in.direction)
       IN  /\ r.ss["alarm"] # source_sink["alarm"] => Deposits(source_sink) < MaxDeposits
           /\ nanobots' = [nanobots EXCEPT ![a] = r.bot]
           /\ cells' = r.cells
           /\ source_sink' = r.ss
           /\ last' = [op |-> IF r.raised THEN "step_raised" ELSE "step", id |-> a]
    /\ errors' = errors \o step_errors(nanobots[a], in.guidance, in.action, in.trail)
    /\ UNCHANGED <<vessels, api_enabled, microenv, model>>

\* main.py: after every tick the caller copies model.errors into its response
\* and clears them, so a step begins with an empty list
ClearErrors ==
    /\ errors # <<>>
    /\ errors' = <<>>
    /\ last' = [op |-> "clear_errors", id |-> 0]
    /\ UNCHANGED <<cells, vessels, nanobots, api_enabled, source_sink, microenv, model>>

ResetAllSourcesSinks ==
    /\ source_sink' = reset_all_sources_sinks(source_sink)
    /\ last' = [op |-> "reset_all_sources_sinks", id |-> 0]
    /\ UNCHANGED <<cells, vessels, nanobots, api_enabled, microenv, model, errors>>

Next ==
    \/ \E a \in AgentIds : \E in \in StepInputs(nanobots[a]) : AgentStep(a, in)
    \/ errors = <<>> /\ ResetAllSourcesSinks
    \/ ClearErrors
    \/ errors = <<>> /\ \E c \in CellIds, o \in {4, 5} : UpdateOxygenStatus(c, o, 20)
    \/ errors = <<>> /\ \E c \in CellIds : AbsorbDrug(c, 50, 20)

Spec == Init /\ [][Next]_vars

----------------------------------------------------------------------------
(* Claims about the agent *)

\* C1: after every agent step, whatever its state, and after every other
\* operation, each agent has 0 <= drug_payload <= max_payload.
C1_PayloadBounds ==
    \A a \in AgentIds :
        /\ 0 <= nanobots[a].drug_payload
        /\ nanobots[a].drug_payload <= max_payload

\* an agent has released its payload and is reloading, partly filled
C1_Witness ==
    \E a \in AgentIds :
        /\ last = [op |-> "step", id |-> a]
        /\ nanobots[a].state = "reloading"
        /\ nanobots[a].drug_payload > 0
        /\ nanobots[a].drug_payload < max_payload
        /\ nanobots[a].deliveries_made > 0

\* C6: an agent starts Searching, and one step changes its state at most
\* once and only along the eight listed transitions.
AllowedTransitions ==
    {<<"searching", "targeting">>,
     <<"targeting", "delivering">>, <<"targeting", "searching">>,
     <<"delivering", "returning">>, <<"delivering", "searching">>,
     <<"returning", "reloading">>, <<"returning", "searching">>,
     <<"reloading", "searching">>}

C6_Transitions ==
    /\ \A a \in AgentIds : nanobots[a].state = "searching"
    /\ [][\A a \in AgentIds :
          \/ nanobots'[a].state = nanobots[a].state
          \/ /\ last' = [op |-> "step", id |-> a]
             /\ <<nanobots[a].state, nanobots'[a].state>> \in AllowedTransitions]_vars

\* an agent that has delivered and reloaded is Searching again
C6_Witness ==
    \E a \in AgentIds :
        /\ last = [op |-> "step", id |-> a]
        /\ nanobots[a].state = "searching"
        /\ nanobots[a].deliveries_made > 0
        /\ nanobots[a].drug_payload = max_payload

\* C10: a step begun in Delivering with a living target whose release,
\* min(payload, 100), lifts the target's dose to its lethal dose leaves the
\* cell Apoptotic and dead, deliveries_made one higher, the target cleared
\* and the agent Returning.
LethalDelivery(a) ==
    LET n == nanobots[a] IN
    /\ n.state = "delivering"
    /\ n.target_cell # NoRef
    /\ cells[n.target_cell].is_alive
    /\ n.drug_payload > 0
    /\ cells[n.target_cell].accumulated_drug + Min(n.drug_payload, delivery_per_step)
          >= lethal_drug_dose

C10_ForcedKill ==
    [][\A a \in AgentIds :
          (last' = [op |-> "step", id |-> a] /\ LethalDelivery(a)) =>
              LET c == nanobots[a].target_cell IN
              /\ cells'[c].phase = "apoptotic"
              /\ ~cells'[c].is_alive
              /\ nanobots'[a].deliveries_made = nanobots[a].deliveries_made + 1
              /\ nanobots'[a].target_cell = NoRef
              /\ nanobots'[a].state = "returning"]_vars

\* the scenario's numbers: one release of 100 killed a cell that had no dose
C10_Witness ==
    \E a \in AgentIds : \E c \in CellIds :
        /\ last = [op |-> "step", id |-> a]
        /\ nanobots[a].state = "returning"
        /\ nanobots[a].deliveries_made = 1
        /\ nanobots[a].total_drug_delivered = 100
        /\ source_sink["drug"][position_to_voxel(nanobots[a].position)] = 100
        /\ cells[c].phase = "apoptotic"
        /\ cells[c].accumulated_drug = lethal_drug_dose

\* C12: in a geometry without vessels find_nearest_vessel finds none, a
\* Returning agent has no target vessel, and its next step makes it Searching
\* where it stands, leaves the target vessel unset and appends nothing to the
\* model's errors
C12_NoVesselFallback ==
    [][\A a \in AgentIds :
          (/\ last' = [op |-> "step", id |-> a]
           /\ vessels = <<>>
           /\ nanobots[a].state = "returning")
          => /\ find_nearest_vessel(vessels, nanobots[a].position) = NoRef
             /\ nanobots[a].target_vessel = NoRef
             /\ nanobots'[a] = [nanobots[a] EXCEPT !.state = "searching"]
             /\ errors' = errors]_vars

\* without vessels an agent that emptied its payload on a cell beside it is
\* Searching again, with no target vessel and no error logged
C12_Witness ==
    \E a \in AgentIds : \E c \in CellIds :
        /\ last = [op |-> "step", id |-> a]
        /\ vessels = <<>>
        /\ nanobots[a].state = "searching"
        /\ nanobots[a].deliveries_made = 1
        /\ nanobots[a].drug_payload = 0
        /\ nanobots[a].target_vessel = NoRef
        /\ Abs(cells[c].position - nanobots[a].position) < delivery_distance
        /\ ~cells[c].is_alive
        /\ errors = <<>>

\* C14: whenever the policy call made by a Searching agent raises or times
\* out, which the error list records, the same step adds the alarm amount to
\* the alarm accumulator at the voxel the agent stood in
C14_AlarmOnFailure ==
    [][\A a \in AgentIds :
          (/\ last' = [op |-> "step", id |-> a]
           /\ nanobots[a].state = "searching"
           /\ errors' = Append(errors, "LLM call failed for Nanobot"))
          => LET voxel == position_to_voxel(nanobots[a].position)
             IN  source_sink'["alarm"][voxel]
                   = source_sink["alarm"][voxel] + alarm_deposit]_vars

\* C17: after every step that changed the agent's position the position
\* lies within the domain, wherever the agent stood before
C17_PositionInDomain ==
    [][\A a \in AgentIds :
          (/\ last' = [op |-> "step", id |-> a]
           /\ nanobots'[a].position # nanobots[a].position)
          => /\ nanobots'[a].position >= 0
             /\ nanobots'[a].position <= domain_size]_vars

\* an agent has moved and stands on the upper bound of the domain, where a
\* move from the start position beyond the bound is clamped to
C17_Witness ==
    \E a \in AgentIds :
        /\ last = [op |-> "step", id |-> a]
        /\ nanobots[a].state = "searching"
        /\ nanobots[a].deliveries_made = 0
        /\ nanobots[a].position = domain_size

\* C18: every step that takes an agent from Searching to Targeting, by the
\* check after the move or by the policy's 'target' answer, locks a living
\* cell within the search radius (here the larger of the two radii the code
\* searches with) and is taken with a payload above the minimum
C18_LockNeedsPayload ==
    [][\A a \in AgentIds :
          (/\ last' = [op |-> "step", id |-> a]
           /\ nanobots[a].state = "searching"
           /\ nanobots'[a].state = "targeting")
          => /\ nanobots'[a].target_cell # NoRef
             /\ cells'[nanobots'[a].target_cell].is_alive
             /\ Abs(cells'[nanobots'[a].target_cell].position - nanobots'[a].position)
                  <= llm_search_radius
             /\ nanobots[a].drug_payload > min_payload]_vars

\* C19: whenever an unguided Searching step ends with a living cell within
\* the search radius of the agent and a payload above the minimum, the agent
\* is Targeting with a locked cell, a Hypoxic one if a living Hypoxic cell is
\* within the radius
C19_LocksWhenInReach ==
    [][\A a \in AgentIds :
          LET in_reach == {c \in get_living_cells(cells') :
                             Abs(cells'[c].position - nanobots'[a].position)
                               <= search_radius}
          IN  (/\ last' = [op |-> "step", id |-> a]
               /\ nanobots[a].state = "searching"
               /\ in_reach # {}
               /\ nanobots[a].drug_payload > min_payload)
              => /\ nanobots'[a].state = "targeting"
                 /\ nanobots'[a].target_cell # NoRef
                 /\ (\E c \in in_reach : cells'[c].phase = "hypoxic")
                       => cells'[nanobots'[a].target_cell].phase = "hypoxic"]_vars

-----------------------------------------------------------------------------
\* Reloading from any payload: an agent docked at a vessel, its payload drawn
\* from the whole range, stepped until it leaves Reloading

ReloadPayloads == 0 .. max_payload
\* the steps the count below follows an agent for
MaxReloadFollowed == 12

InitReload ==
    /\ cells \in GeneratedCells
    /\ vessels \in VesselLayouts \ {<<>>}
    /\ \E payload \in ReloadPayloads : \E is_llm \in BOOLEAN :
          nanobots = [a \in AgentIds |->
                        [NanobotAgent(vessels[1] - 5, is_llm) EXCEPT
                            !.state = "reloading",
                            !.drug_payload = payload,
                            !.target_vessel = 1]]
    /\ api_enabled \in BOOLEAN
    /\ source_sink = ZeroSources
    /\ microenv = <<>>
    /\ model = <<>>
    /\ errors = <<>>
    /\ last = NoOp

ReloadStep(a) ==
    /\ nanobots[a].state = "reloading"
    /\ AgentStep(a, NoInput)

NextReload == \E a \in AgentIds : ReloadStep(a)

SpecReload == InitReload /\ [][NextReload]_vars

\* the number of steps after which the agent is no longer Reloading
RECURSIVE StepsInReloading(_, _)
StepsInReloading(n, k) ==
    IF n.state # "reloading" \/ k >= MaxReloadFollowed THEN k
    ELSE StepsInReloading(step(n, cells, source_sink, 0, "explore", 0, 1).bot, k + 1)

\* C11: from any payload in 0 .. max_payload a Reloading agent gains the
\* reload rate per step up to the maximum, is Searching after at most five of
\* its steps, leaves exactly at the first step whose payload reaches 90% of
\* the maximum, and has no target vessel once it has left
C11_ReloadLeaves ==
    [][\A a \in AgentIds :
          (last'.op = "step" /\ nanobots[a].state = "reloading") =>
              /\ StepsInReloading(nanobots[a], 0) <= 5
              /\ nanobots'[a].drug_payload
                   = Min(nanobots[a].drug_payload + reload_rate, max_payload)
              /\ IF nanobots'[a].drug_payload * 10 >= max_payload * 9
                 THEN /\ nanobots'[a].state = "searching"
                      /\ nanobots'[a].target_vessel = NoRef
                 ELSE /\ nanobots'[a].state = "reloading"
                      /\ nanobots'[a].target_vessel = nanobots[a].target_vessel]_vars

\* an agent left Reloading with exactly 90% of the maximum payload
C11_Witness ==
    \E a \in AgentIds :
        /\ last.op = "step"
        /\ nanobots[a].state = "searching"
        /\ nanobots[a].drug_payload * 10 = max_payload * 9
        /\ nanobots[a].target_vessel = NoRef

-----------------------------------------------------------------------------
\* One Delivering step from any payload: an agent beside its living target,
\* the payload drawn from the whole range, the target with or without a dose

DeliverPayloads == 0 .. max_payload
DeliverOffsets == {-4, 0, 4}
PriorDoses == {0, 50}

InitDeliver ==
    /\ \E generated \in GeneratedCells : \E dose \in [CellIds -> PriorDoses] :
          cells = [c \in CellIds |->
                     [generated[c] EXCEPT !.accumulated_drug = dose[c]]]
    /\ vessels \in VesselLayouts
    /\ \E payload \in DeliverPayloads, target \in CellIds, offset \in DeliverOffsets :
          nanobots = [a \in AgentIds |->
                        [NanobotAgent(cell_position(target) + offset, FALSE) EXCEPT
                            !.state = "delivering",
                            !.drug_payload = payload,
                            !.target_cell = target]]
    /\ api_enabled = FALSE
    /\ source_sink = ZeroSources
    /\ microenv = <<>>
    /\ model = <<>>
    /\ errors = <<>>
    /\ last = NoOp

DeliverStep(a) ==
    /\ nanobots[a].state = "delivering"
    /\ AgentStep(a, NoInput)

NextDeliver == \E a \in AgentIds : DeliverStep(a)

SpecDeliver == InitDeliver /\ [][NextDeliver]_vars

\* C20: one Delivering step with a living target and a payload above zero
\* releases a = min(payload, 100): the payload falls by a, the agent's total
\* delivered, the drug accumulator of the agent's voxel and the target's
\* accumulated dose rise by a, and the trail accumulator of the voxel rises by
\* the trail amount
C20_DeliveryAccounting ==
    [][\A a \in AgentIds :
          (/\ last' = [op |-> "step", id |-> a]
           /\ nanobots[a].state = "delivering"
           /\ nanobots[a].target_cell # NoRef
           /\ cells[nanobots[a].target_cell].is_alive
           /\ nanobots[a].drug_payload > 0)
          => LET amount == Min(nanobots[a].drug_payload, 100)
                 voxel == position_to_voxel(nanobots[a].position)
                 target == nanobots[a].target_cell
             IN  /\ nanobots'[a].drug_payload = nanobots[a].drug_payload - amount
                 /\ nanobots'[a].total_drug_delivered
                      = nanobots[a].total_drug_delivered + amount
                 /\ source_sink'["drug"][voxel] = source_sink["drug"][voxel] + amount
                 /\ cells'[target].accumulated_drug
                      = cells[target].accumulated_drug + amount
                 /\ source_sink'["trail"][voxel]
                      = source_sink["trail"][voxel] + trail_deposit]_vars

\* a partial payload of 37 was released onto a cell that held a dose of 50
C20_Witness ==
    \E a \in AgentIds : \E c \in CellIds :
        /\ last = [op |-> "step", id |-> a]
        /\ nanobots[a].state = "returning"
        /\ nanobots[a].drug_payload = 0
        /\ nanobots[a].total_drug_delivered = 37
        /\ cells[c].accumulated_drug = 87
        /\ cells[c].is_alive
        /\ source_sink["drug"][position_to_voxel(nanobots[a].position)] = 37
        /\ source_sink["trail"][position_to_voxel(nanobots[a].position)] = trail_deposit

-----------------------------------------------------------------------------
\* The agent loop of TumorNanobotModel.step(): `for nanobot in self.nanobots`
\* over two agents that are Delivering, model.next being the index of the agent
\* the loop steps next

LoopAgents == 1 .. 2
LoopPayloads == {0, 5, 50, 100}
LoopOffsets == {0, 4}

InitLoop ==
    /\ \E generated \in GeneratedCells : \E dose \in [CellIds -> PriorDoses] :
          cells = [c \in CellIds |->
                     [generated[c] EXCEPT !.accumulated_drug = dose[c]]]
    /\ vessels \in VesselLayouts
    /\ \E payload \in [LoopAgents -> LoopPayloads] :
       \E target \in [LoopAgents -> CellIds] :
       \E offset \in [LoopAgents -> LoopOffsets] :
          nanobots = [a \in LoopAgents |->
                        [NanobotAgent(cell_position(target[a]) + offset[a], FALSE) EXCEPT
                            !.state = "delivering",
                            !.drug_payload = payload[a],
                            !.target_cell = target[a]]]
    /\ api_enabled = FALSE
    /\ source_sink = ZeroSources
    /\ microenv = <<>>
    /\ model = [next |-> 1]
    /\ errors = <<>>
    /\ last = NoOp

\* one pass of the loop body: nanobot.step(guidance) with the empty guidance
LoopStep ==
    LET a == model.next
    IN  /\ a <= Len(nanobots)
        /\ LET r == step(nanobots[a], cells, source_sink, 0,
                         NoInput.action, NoInput.trail, NoInput.direction)
           IN  /\ nanobots' = [nanobots EXCEPT ![a] = r.bot]
               /\ cells' = r.cells
               /\ source_sink' = r.ss
        /\ errors' = errors \o step_errors(nanobots[a], 0, NoInput.action, NoInput.trail)
        /\ model' = [model EXCEPT !.next = a + 1]
        /\ last' = [op |-> "step", id |-> a]
        /\ UNCHANGED <<vessels, api_enabled, microenv>>

NextLoop == LoopStep

SpecLoop == InitLoop /\ [][NextLoop]_vars

\* C21: the loop steps the agents in creation order, and an agent whose
\* target is dead when its own step starts releases nothing: its payload, its
\* total delivered and its delivery count stay, no accumulator and no cell
\* changes, the target is cleared and the agent is Searching
C21_DeadTargetNoRelease ==
    [][/\ (last.op = "step" /\ last'.op = "step") => last'.id = last.id + 1
       /\ (last.op # "step" /\ last'.op = "step") => last'.id = 1
       /\ \A a \in LoopAgents :
             (/\ last' = [op |-> "step", id |-> a]
              /\ nanobots[a].state = "delivering"
              /\ nanobots[a].target_cell # NoRef
              /\ ~cells[nanobots[a].target_cell].is_alive)
             => /\ nanobots'[a].drug_payload = nanobots[a].drug_payload
                /\ nanobots'[a].total_drug_delivered = nanobots[a].total_drug_delivered
                /\ nanobots'[a].deliveries_made = nanobots[a].deliveries_made
                /\ nanobots'[a].target_cell = NoRef
                /\ nanobots'[a].state = "searching"
                /\ source_sink' = source_sink
                /\ cells' = cells]_vars

\* both agents were Delivering to one cell; the first one's dose killed it and
\* the second, stepped after it, kept its whole payload and is Searching
C21_Witness ==
    \E c \in CellIds :
        /\ last = [op |-> "step", id |-> 2]
        /\ nanobots[1].state = "returning"
        /\ nanobots[1].total_drug_delivered = 50
        /\ nanobots[1].position \in {cell_position(c), cell_position(c) + 4}
        /\ ~cells[c].is_alive
        /\ cells[c].accumulated_drug = 100
        /\ nanobots[2].state = "searching"
        /\ nanobots[2].position \in {cell_position(c), cell_position(c) + 4}
        /\ nanobots[2].target_cell = NoRef
        /\ nanobots[2].drug_payload = 100
        /\ nanobots[2].total_drug_delivered = 0
        /\ nanobots[2].deliveries_made = 0
        /\ \A d \in CellIds \ {c} : cells[d].is_alive

-----------------------------------------------------------------------------
\* Microenvironment (src/backend/biofvm.py).  Lengths are in microns and
\* diffusion coefficients in um^2/min as in the source; add_substrate takes
\* its coefficient in units of 1e-8 cm^2/s, so the source's factor 6e9 is 60.
\* Concentrations and source terms are kept in thousandths of a unit, and a
\* time is an exact fraction <<numerator, denominator>> of a minute.

RECURSIVE GCD(_, _)
GCD(a, b) == IF b = 0 THEN a ELSE GCD(b, a % b)

Reduce(q) ==
    IF q[1] = 0 THEN <<0, 1>>
    ELSE LET g == GCD(q[1], q[2]) IN <<q[1] \div g, q[2] \div g>>

RatLeq(a, b) == a[1] * b[2] <= b[1] * a[2]

RatMin(a, b) == IF RatLeq(a, b) THEN a ELSE b

RatAdd(a, b) == Reduce(<<a[1] * b[2] + b[1] * a[2], a[2] * b[2]>>)

\* a / b rounded to the nearest integer, b > 0
RoundDiv(a, b) ==
    IF a >= 0 THEN (2 * a + b) \div (2 * b) ELSE -((b - 2 * a) \div (2 * b))

initial_dt == <<1, 100>>
dt_cap == <<1, 10>>
NoDt == <<0, 0>>

\* SubstrateField.__init__ as add_substrate calls it
SubstrateField(shape, D, decay_x100, initial_value, has_dirichlet, bv) ==
    [concentration |-> [v \in shape |-> initial_value],
     diffusion_coefficient |-> D,
     decay_x100 |-> decay_x100,
     has_dirichlet |-> has_dirichlet,
     dirichlet_boundary_value |-> bv,
     source_sink |-> [v \in shape |-> 0]]

field_add_source_into_concentration(f, position, amount) ==
    IF position \in DOMAIN f.concentration
    THEN [f EXCEPT !.source_sink[position] = @ + amount,
                   !.concentration[position] = @ + amount]
    ELSE f

field_add_source(f, position, amount) ==
    IF position \in DOMAIN f.concentration
    THEN [f EXCEPT !.source_sink[position] = @ + amount]
    ELSE f

field_add_sink(f, position, amount) ==
    IF position \in DOMAIN f.concentration
    THEN [f EXCEPT !.source_sink[position] = @ - amount]
    ELSE f

reset_sources_sinks(f) ==
    [f EXCEPT !.source_sink = [v \in DOMAIN f.concentration |-> 0]]

\* Microenvironment.__init__ on the domain [0, domain_size]^3
Microenvironment(dx, dy, dz, dimensionality) ==
    LET mx == (domain_size \div dx) + 1
        my == (domain_size \div dy) + 1
        mz == IF dimensionality = 2 THEN 1 ELSE (domain_size \div dz) + 1
    IN [dx |-> dx, dy |-> dy,
        dz |-> IF dimensionality = 2 THEN 1 ELSE dz,
        dimensionality |-> dimensionality,
        nx |-> mx, ny |-> my, nz |-> mz,
        shape |-> (0 .. mx - 1) \X (0 .. my - 1) \X (0 .. mz - 1),
        substrates |-> <<>>,
        time |-> <<0, 1>>,
        dt |-> initial_dt,
        steps |-> 0]

SetMax(S) == CHOOSE x \in S : \A y \in S : y <= x

min_spacing(env) ==
    IF env.dimensionality = 3
    THEN Min(Min(env.dx, env.dy), env.dz)
    ELSE Min(env.dx, env.dy)

\* the mutant of update_timestep that takes the slowest field
update_timestep_min_D(env) ==
    LET min_D == -SetMax({-env.substrates[n].diffusion_coefficient :
                          n \in DOMAIN env.substrates})
    IN IF min_D = 0 THEN env
       ELSE [env EXCEPT !.dt =
               RatMin(Reduce(<<min_spacing(env) * min_spacing(env),
                               8 * min_D * env.dimensionality>>), dt_cap)]

\* _update_timestep; with every coefficient zero the division raises and
\* dt keeps its value
update_timestep(env) ==
    IF DOMAIN env.substrates = {} THEN env
    ELSE LET max_D == SetMax({env.substrates[n].diffusion_coefficient :
                              n \in DOMAIN env.substrates})
         IN IF max_D = 0 THEN env
            ELSE [env EXCEPT !.dt =
                    RatMin(Reduce(<<min_spacing(env) * min_spacing(env),
                                    8 * max_D * env.dimensionality>>), dt_cap)]

add_substrate(env, call) ==
    LET D_um2_per_min == call.diffusion_coefficient * 60
        substrate == SubstrateField(env.shape, D_um2_per_min, call.decay_x100,
                                    call.initial_value, call.has_dirichlet,
                                    call.dirichlet_boundary_value)
        names == DOMAIN env.substrates \cup {call.name}
    IN update_timestep(
         [env EXCEPT !.substrates =
            [n \in names |-> IF n = call.name THEN substrate
                             ELSE env.substrates[n]]])

is_interior(env, v) ==
    /\ 0 < v[1] /\ v[1] < env.nx - 1
    /\ 0 < v[2] /\ v[2] < env.ny - 1
    /\ env.dimensionality = 3 => (0 < v[3] /\ v[3] < env.nz - 1)

\* the finite-difference Laplacian, left zero outside the interior slice
laplacian(env, C) ==
    [v \in env.shape |->
        IF ~is_interior(env, v) THEN 0
        ELSE LET i == v[1]
                 j == v[2]
                 k == v[3]
                 ddx == RoundDiv(C[<<i + 1, j, k>>] - 2 * C[v] + C[<<i - 1, j, k>>],
                                 env.dx * env.dx)
                 ddy == RoundDiv(C[<<i, j + 1, k>>] - 2 * C[v] + C[<<i, j - 1, k>>],
                                 env.dy * env.dy)
                 ddz == IF env.dimensionality = 3
                        THEN RoundDiv(C[<<i, j, k + 1>>] - 2 * C[v] + C[<<i, j, k - 1>>],
                                      env.dz * env.dz)
                        ELSE 0
             IN ddx + ddy + ddz]

\* the boundary assignments, made in place and one after the other
apply_boundary(env, f, C) ==
    IF f.has_dirichlet
    THEN [v \in env.shape |->
            IF \/ v[1] \in {0, env.nx - 1}
               \/ v[2] \in {0, env.ny - 1}
               \/ (env.dimensionality = 3 /\ v[3] \in {0, env.nz - 1})
            THEN f.dirichlet_boundary_value
            ELSE C[v]]
    ELSE LET C1 == [v \in env.shape |->
                      IF v[1] = 0 THEN C[<<1, v[2], v[3]>>] ELSE C[v]]
             C2 == [v \in env.shape |->
                      IF v[1] = env.nx - 1 THEN C1[<<env.nx - 2, v[2], v[3]>>]
                      ELSE C1[v]]
             C3 == [v \in env.shape |->
                      IF v[2] = 0 THEN C2[<<v[1], 1, v[3]>>] ELSE C2[v]]
             C4 == [v \in env.shape |->
                      IF v[2] = env.ny - 1 THEN C3[<<v[1], env.ny - 2, v[3]>>]
                      ELSE C3[v]]
             C5 == [v \in env.shape |->
                      IF v[3] = 0 THEN C4[<<v[1], v[2], 1>>] ELSE C4[v]]
             C6 == [v \in env.shape |->
                      IF v[3] = env.nz - 1 THEN C5[<<v[1], v[2], env.nz - 2>>]
                      ELSE C5[v]]
         IN IF env.dimensionality = 3 THEN C6 ELSE C4

\* the forward-Euler value of every voxel before the final clamp
euler_update(env, f, dt) ==
    LET lap == laplacian(env, f.concentration)
        C == apply_boundary(env, f, f.concentration)
    IN [v \in env.shape |->
          LET dC_dt == f.diffusion_coefficient * lap[v]
                       - RoundDiv(f.decay_x100 * C[v], 100)
                       + f.source_sink[v]
          IN C[v] + RoundDiv(dt[1] * dC_dt, dt[2])]

\* the mutant of simulate_diffusion_decay that omits np.maximum(..., 0)
simulate_diffusion_decay_unclamped(env, f, dt) ==
    [f EXCEPT !.concentration = euler_update(env, f, dt)]

simulate_diffusion_decay(env, f, dt) ==
    LET updated == euler_update(env, f, dt)
    IN [f EXCEPT !.concentration = [v \in env.shape |-> Max(updated[v], 0)]]

\* the mutant of step() that zeroes the accumulators it has integrated
env_step_clears_accumulators(env, dt_arg) ==
    LET dt == IF dt_arg = NoDt THEN env.dt ELSE dt_arg
    IN [env EXCEPT
          !.substrates = [n \in DOMAIN env.substrates |->
                            reset_sources_sinks(simulate_diffusion_decay(env, env.substrates[n], dt))],
          !.time = RatAdd(env.time, dt),
          !.steps = @ + 1]

\* Microenvironment.step(dt); NoDt stands for the default dt=None
env_step(env, dt_arg) ==
    LET dt == IF dt_arg = NoDt THEN env.dt ELSE dt_arg
    IN [env EXCEPT
          !.substrates = [n \in DOMAIN env.substrates |->
                            simulate_diffusion_decay(env, env.substrates[n], dt)],
          !.time = RatAdd(env.time, dt),
          !.steps = @ + 1]

\* the mutant of reset_all_sources_sinks that leaves the accumulators as they are
env_reset_skipped(env) == env

env_reset_all_sources_sinks(env) ==
    [env EXCEPT !.substrates = [n \in DOMAIN env.substrates |->
                                  reset_sources_sinks(env.substrates[n])]]

-----------------------------------------------------------------------------
\* A microenvironment driven directly, as test_biofvm does: fields are
\* registered, sources and sinks are written, and step() is called.

MaxEnvSteps == 2
MaxConc == 100000
MaxSource == 50000

MeshSpacings == {<<30, 20, 30>>, <<30, 30, 20>>}
Dimensionalities == {2, 3}

\* create_oxygen_substrate, create_drug_substrate with a slow coefficient,
\* create_pheromone_substrate, and a direct add_substrate of a non-diffusing
\* field with a negative initial value
AddCalls ==
    { [name |-> "oxygen", diffusion_coefficient |-> 1000, decay_x100 |-> 10,
       initial_value |-> 38000, has_dirichlet |-> TRUE,
       dirichlet_boundary_value |-> 38000],
      [name |-> "drug", diffusion_coefficient |-> 1, decay_x100 |-> 5,
       initial_value |-> 0, has_dirichlet |-> TRUE,
       dirichlet_boundary_value |-> 0],
      [name |-> "trail", diffusion_coefficient |-> 100, decay_x100 |-> 10,
       initial_value |-> 0, has_dirichlet |-> FALSE,
       dirichlet_boundary_value |-> 0],
      [name |-> "drug", diffusion_coefficient |-> 0, decay_x100 |-> 500,
       initial_value |-> -5000, has_dirichlet |-> FALSE,
       dirichlet_boundary_value |-> 0] }

SourceAmounts == {50000}
StepDts == {NoDt, <<1, 1>>}

\* between two resets one voxel is written, as in test_biofvm: every
\* accumulator entry but the one at position of field name is zero
OnlyWrite(env, name, position) ==
    \A n \in DOMAIN env.substrates : \A v \in env.shape :
        (n # name \/ v # position) => env.substrates[n].source_sink[v] = 0

\* the centre voxel, a corner voxel, and an index outside the grid
WriteVoxels(env) ==
    {<<env.nx \div 2, env.ny \div 2, env.nz \div 2>>, <<0, 0, 0>>,
     <<env.nx, 0, 0>>}

InitEnv ==
    /\ microenv \in {Microenvironment(sp[1], sp[2], sp[3], d) :
                       sp \in MeshSpacings, d \in Dimensionalities}
    /\ cells = <<>>
    /\ vessels = <<>>
    /\ nanobots = <<>>
    /\ api_enabled = FALSE
    /\ source_sink = <<>>
    /\ model = <<>>
    /\ errors = <<>>
    /\ last = NoOp

\* fields are registered before the first step, as every caller does
AddSubstrate(call) ==
    /\ microenv.steps = 0
    /\ microenv' = add_substrate(microenv, call)
    /\ last' = [op |-> "add_substrate", id |-> 0]
    /\ UNCHANGED <<cells, vessels, nanobots, api_enabled, source_sink, model, errors>>

EnvAddSource(name, position, amount) ==
    /\ name \in DOMAIN microenv.substrates
    /\ LET f == field_add_source(microenv.substrates[name], position, amount)
           env == [microenv EXCEPT !.substrates[name] = f]
       IN /\ OnlyWrite(env, name, position)
          /\ \A v \in env.shape : f.source_sink[v] <= MaxSource
          /\ microenv' = env
    /\ last' = [op |-> "add_source", id |-> 0]
    /\ UNCHANGED <<cells, vessels, nanobots, api_enabled, source_sink, model, errors>>

EnvAddSink(name, position, amount) ==
    /\ name \in DOMAIN microenv.substrates
    /\ LET f == field_add_sink(microenv.substrates[name], position, amount)
           env == [microenv EXCEPT !.substrates[name] = f]
       IN /\ OnlyWrite(env, name, position)
          /\ \A v \in env.shape : f.source_sink[v] >= -MaxSource
          /\ microenv' = env
    /\ last' = [op |-> "add_sink", id |-> 0]
    /\ UNCHANGED <<cells, vessels, nanobots, api_enabled, source_sink, model, errors>>

EnvReset ==
    /\ microenv' = env_reset_all_sources_sinks(microenv)
    /\ last' = [op |-> "env_reset", id |-> 0]
    /\ UNCHANGED <<cells, vessels, nanobots, api_enabled, source_sink, model, errors>>

EnvStep(dt_arg) ==
    /\ microenv.steps < MaxEnvSteps
    /\ \A n \in DOMAIN microenv.substrates : \A v \in microenv.shape :
          microenv.substrates[n].concentration[v] <= MaxConc
    /\ microenv' = env_step(microenv, dt_arg)
    /\ last' = [op |-> "env_step", id |-> 0]
    /\ UNCHANGED <<cells, vessels, nanobots, api_enabled, source_sink, model, errors>>

NextEnv ==
    \/ \E call \in AddCalls : AddSubstrate(call)
    \/ \E name \in SubstrateNames, amount \in SourceAmounts :
         \E position \in WriteVoxels(microenv) : EnvAddSource(name, position, amount)
    \/ \E name \in SubstrateNames, amount \in SourceAmounts :
         \E position \in WriteVoxels(microenv) : EnvAddSink(name, position, amount)
    \/ EnvReset
    \/ \E dt_arg \in StepDts : EnvStep(dt_arg)

SpecEnv == InitEnv /\ [][NextEnv]_vars

\* C7: after every Microenvironment.step(), every voxel of every registered
\* field holds a concentration >= 0, whatever sources, sinks, decay rate and
\* timestep the step used
C7_NonNegativity ==
    last.op = "env_step" =>
        \A n \in DOMAIN microenv.substrates : \A v \in microenv.shape :
            microenv.substrates[n].concentration[v] >= 0

\* a step has just brought an oxygen voxel that carries a sink down to zero
C7_Witness ==
    /\ last.op = "env_step"
    /\ "oxygen" \in DOMAIN microenv.substrates
    /\ \E v \in microenv.shape :
          /\ microenv.substrates["oxygen"].source_sink[v] < 0
          /\ microenv.substrates["oxygen"].concentration[v] = 0

\* C8: after any sequence of add_substrate calls, dt is at most
\* 0.25 * min(spacing)^2 / (2 * D * dimensionality) for the coefficient D of
\* every registered field, and at most 0.1
C8_TimestepStability ==
    /\ RatLeq(microenv.dt, dt_cap)
    /\ \A n \in DOMAIN microenv.substrates :
          microenv.dt[1] * 8 * microenv.substrates[n].diffusion_coefficient
                         * microenv.dimensionality
            <= microenv.dt[2] * min_spacing(microenv) * min_spacing(microenv)

\* two fields of different coefficients are registered, the last call added
\* one, and dt sits on the bound of the faster one, below the cap
C8_Witness ==
    /\ last.op = "add_substrate"
    /\ \E n, m \in DOMAIN microenv.substrates :
          /\ microenv.substrates[n].diffusion_coefficient
               > microenv.substrates[m].diffusion_coefficient
          /\ microenv.substrates[m].diffusion_coefficient > 0
          /\ microenv.dt[1] * 8 * microenv.substrates[n].diffusion_coefficient
                            * microenv.dimensionality
               = microenv.dt[2] * min_spacing(microenv) * min_spacing(microenv)
    /\ microenv.dt # dt_cap

\* the accumulators of all fields, as one function
accumulators(env) ==
    [n \in DOMAIN env.substrates |-> env.substrates[n].source_sink]

ZeroAccumulators(env) ==
    [n \in DOMAIN env.substrates |-> [v \in env.shape |-> 0]]

\* the concentration grids of all fields, as one function
concentrations(env) ==
    [n \in DOMAIN env.substrates |-> env.substrates[n].concentration]

\* C32: the writes the cells, vessels and agents make (add_source, add_sink)
\* and the accumulator reset leave every concentration grid as it is; a
\* grid changes only in Microenvironment.step (and when a field is
\* registered at setup), so a read between two steps returns what the
\* earlier step left
C32_OnlyStepChangesConcentrations ==
    [][concentrations(microenv') # concentrations(microenv)
       => last'.op \in {"env_step", "add_substrate"}]_vars

\* after a step that changed the oxygen grid, a sink was written into an
\* oxygen accumulator
C32_Witness ==
    /\ last.op = "add_sink"
    /\ microenv.steps >= 1
    /\ "oxygen" \in DOMAIN microenv.substrates
    /\ \E v \in microenv.shape :
          /\ microenv.substrates["oxygen"].source_sink[v] < 0
          /\ microenv.substrates["oxygen"].concentration[v] # 38000

\* C33: Microenvironment.step() leaves every accumulator as it was, so a
\* source or sink written once is integrated by every later step until
\* reset_all_sources_sinks(), which zeroes every accumulator; an entry
\* goes back to zero only by the reset, a cancelling write or a new
\* registration of the field
C33_StepKeepsAccumulators ==
    [][/\ last'.op = "env_step" => accumulators(microenv') = accumulators(microenv)
       /\ last'.op = "env_reset" => accumulators(microenv') = ZeroAccumulators(microenv)
       /\ (\E n \in DOMAIN microenv.substrates : \E v \in microenv.shape :
              /\ microenv.substrates[n].source_sink[v] # 0
              /\ microenv'.substrates[n].source_sink[v] = 0)
          => last'.op \in {"env_reset", "add_source", "add_sink", "add_substrate"}]_vars

\* a source written before the first step is still in its accumulator after
\* the second step
C33_Witness ==
    /\ last.op = "env_step"
    /\ microenv.steps = 2
    /\ \E n \in DOMAIN microenv.substrates : \E v \in microenv.shape :
          microenv.substrates[n].source_sink[v] = 50000

is_edge(env, v) ==
    \/ v[1] \in {0, env.nx - 1}
    \/ v[2] \in {0, env.ny - 1}
    \/ (env.dimensionality = 3 /\ v[3] \in {0, env.nz - 1})

\* C28: after every Microenvironment.step(), every edge voxel of a field
\* with a Dirichlet boundary holds exactly the field's boundary value
C28_DirichletEdgesHold ==
    last.op = "env_step" =>
        \A n \in DOMAIN microenv.substrates : \A v \in microenv.shape :
            (microenv.substrates[n].has_dirichlet /\ is_edge(microenv, v))
            => microenv.substrates[n].concentration[v]
                 = microenv.substrates[n].dirichlet_boundary_value

-----------------------------------------------------------------------------
\* TumorNanobotModel (src/backend/nanobot_simulation.py): the constructor and
\* step().  The model's microenvironment is two-dimensional; cells, vessels
\* and agents lie on the line y = domain_size / 2, whose voxel row is row_j.

vessel_oxygen_supply == 38
queen_period == 10
queen_min_payload == 20

row_j == position_to_voxel(domain_size \div 2)

voxel_of(x) == <<position_to_voxel(x), row_j, 0>>

\* TumorNanobotModel.__init__: the mesh and the five fields
model_microenv ==
    LET creations ==
          << [name |-> "oxygen", diffusion_coefficient |-> 1000, decay_x100 |-> 10,
              initial_value |-> 38000, has_dirichlet |-> TRUE,
              dirichlet_boundary_value |-> 38000],
             [name |-> "drug", diffusion_coefficient |-> 10, decay_x100 |-> 5,
              initial_value |-> 0, has_dirichlet |-> TRUE,
              dirichlet_boundary_value |-> 0],
             [name |-> "trail", diffusion_coefficient |-> 100, decay_x100 |-> 10,
              initial_value |-> 0, has_dirichlet |-> FALSE,
              dirichlet_boundary_value |-> 0],
             [name |-> "alarm", diffusion_coefficient |-> 100, decay_x100 |-> 15,
              initial_value |-> 0, has_dirichlet |-> FALSE,
              dirichlet_boundary_value |-> 0],
             [name |-> "recruitment", diffusion_coefficient |-> 100,
              decay_x100 |-> 12, initial_value |-> 0, has_dirichlet |-> FALSE,
              dirichlet_boundary_value |-> 0] >>
        e0 == Microenvironment(voxel_size, voxel_size, voxel_size, 2)
        e1 == add_substrate(e0, creations[1])
        e2 == add_substrate(e1, creations[2])
        e3 == add_substrate(e2, creations[3])
        e4 == add_substrate(e3, creations[4])
    IN add_substrate(e4, creations[5])

\* the mutant of _update_metrics that counts every dead cell as killed
update_metrics_counts_necrotic_as_killed(cs, bots) ==
    LET Total[a \in 0 .. Len(bots)] ==
            IF a = 0 THEN 0 ELSE Total[a - 1] + bots[a].deliveries_made
        Drug[a \in 0 .. Len(bots)] ==
            IF a = 0 THEN 0 ELSE Drug[a - 1] + bots[a].total_drug_delivered
    IN [hypoxic_cells |-> Cardinality(get_cells_in_phase(cs, "hypoxic")),
        viable_cells |-> Cardinality(get_cells_in_phase(cs, "viable")),
        necrotic_cells |-> Cardinality(get_cells_in_phase(cs, "necrotic")),
        apoptotic_cells |-> Cardinality(get_cells_in_phase(cs, "apoptotic")),
        cells_killed |-> Cardinality(get_cells_in_phase(cs, "apoptotic"))
                           + Cardinality(get_cells_in_phase(cs, "necrotic")),
        total_deliveries |-> Total[Len(bots)],
        total_drug_delivered |-> Drug[Len(bots)]]

\* _update_metrics, the counts kept here
update_metrics(cs, bots) ==
    LET Total[a \in 0 .. Len(bots)] ==
            IF a = 0 THEN 0 ELSE Total[a - 1] + bots[a].deliveries_made
        Drug[a \in 0 .. Len(bots)] ==
            IF a = 0 THEN 0 ELSE Drug[a - 1] + bots[a].total_drug_delivered
    IN [hypoxic_cells |-> Cardinality(get_cells_in_phase(cs, "hypoxic")),
        viable_cells |-> Cardinality(get_cells_in_phase(cs, "viable")),
        necrotic_cells |-> Cardinality(get_cells_in_phase(cs, "necrotic")),
        apoptotic_cells |-> Cardinality(get_cells_in_phase(cs, "apoptotic")),
        cells_killed |-> Cardinality(get_cells_in_phase(cs, "apoptotic")),
        total_deliveries |-> Total[Len(bots)],
        total_drug_delivered |-> Drug[Len(bots)]]

\* _update_tumor_cells.  Dead cells are skipped.  For the first living cell
\* the call update_oxygen_status(oxygen, dt, log_callback=...) cannot bind
\* its keyword to TumorCell.update_oxygen_status(self, oxygen_concentration,
\* dt): it raises TypeError before the cell or any accumulator is touched,
\* and nothing in step() catches it.
update_tumor_cells(cs, env) ==
    [raised |-> get_living_cells(cs) # {}, cells |-> cs, env |-> env]

\* _apply_vessel_sources: every vessel adds oxygen_supply * 0.5 at its voxel
RECURSIVE apply_vessel_sources(_, _, _)
apply_vessel_sources(vs, k, env) ==
    IF k > Len(vs) THEN env
    ELSE apply_vessel_sources(vs, k + 1,
           [env EXCEPT !.substrates["oxygen"] =
              field_add_source(@, voxel_of(vs[k]),
                               (vessel_oxygen_supply * 1000) \div 2)])

\* QueenNanobot._guide_with_heuristic: the direction to the nearest hypoxic
\* cell for every Searching agent with payload above 20; 0 is no entry
guide_with_heuristic(cs, bots) ==
    LET hypoxic_cells == get_cells_in_phase(cs, "hypoxic")
    IN [a \in DOMAIN bots |->
          IF hypoxic_cells = {} \/ bots[a].state # "searching"
             \/ bots[a].drug_payload <= queen_min_payload
          THEN 0
          ELSE LET nearest_cell ==
                     CHOOSE c \in hypoxic_cells : \A d \in hypoxic_cells :
                        \/ Abs(cs[c].position - bots[a].position)
                             < Abs(cs[d].position - bots[a].position)
                        \/ /\ Abs(cs[c].position - bots[a].position)
                                = Abs(cs[d].position - bots[a].position)
                           /\ c <= d
                   direction == cs[nearest_cell].position - bots[a].position
               IN IF direction > 0 THEN 1
                  ELSE IF direction < 0 THEN -1 ELSE 0]

guide_with_llm_no_guidance(cs, bots) == [a \in DOMAIN bots |-> 0]

\* QueenNanobot._guide_with_llm: falls back to the heuristic
guide_with_llm(cs, bots) == guide_with_heuristic(cs, bots)

\* QueenNanobot.guide: use_llm and self.model.io_client and api_enabled
guide(use_llm, cs, bots) ==
    IF use_llm /\ api_enabled THEN guide_with_llm(cs, bots)
    ELSE guide_with_heuristic(cs, bots)

\* the agent loop of step(): agents in creation order, each with its guidance;
\* an exception that leaves an agent's step ends the loop and the tick
RECURSIVE step_nanobots(_, _, _, _, _, _, _)
step_nanobots(a, bots, cs, ss, errs, guidance, ins) ==
    IF a > Len(bots)
    THEN [bots |-> bots, cells |-> cs, ss |-> ss, errors |-> errs, raised |-> FALSE]
    ELSE LET r == step(bots[a], cs, ss, guidance[a],
                       ins[a].action, ins[a].trail, ins[a].direction)
         IN IF r.raised
            THEN [bots |-> bots, cells |-> cs, ss |-> ss, errors |-> errs, raised |-> TRUE]
            ELSE step_nanobots(a + 1, [bots EXCEPT ![a] = r.bot], r.cells, r.ss,
                               errs \o step_errors(bots[a], guidance[a],
                                                   ins[a].action, ins[a].trail),
                               guidance, ins)

\* the agents' writes, made in whole units on the row of the agents
deposit_row(env, ss) ==
    [env EXCEPT !.substrates =
        [n \in DOMAIN env.substrates |->
            [env.substrates[n] EXCEPT !.source_sink =
                [v \in env.shape |->
                    IF v[2] = row_j
                    THEN env.substrates[n].source_sink[v] + 1000 * ss[n][v[1]]
                    ELSE env.substrates[n].source_sink[v]]]]]

is_queen_tick_every_tick(m, step_count) == m.with_queen

\* the guidance of this tick: the queen acts when step_count % 10 = 0
is_queen_tick(m, step_count) == m.with_queen /\ step_count % queen_period = 0

tick_guidance(cs, bots, m) ==
    IF is_queen_tick(m, m.step_count + 1) THEN guide(m.use_llm_queen, cs, bots)
    ELSE [a \in DOMAIN bots |-> 0]

\* TumorNanobotModel.step().  Beside the program's state the result records
\* the phases the call completed, whether it raised, the accumulators as they
\* were when the writing phases began, the writes of this call, and the
\* accumulators its diffusion step integrated, and the guidance mapping its
\* agents were stepped with (a local of the call, not kept by the program).
model_step(cs, vs, bots, env, m, errs, ins) ==
    LET step_count == m.step_count + 1
        env0 == env_reset_all_sources_sinks(env)
        u == update_tumor_cells(cs, env0)
        env1 == apply_vessel_sources(vs, 1, u.env)
        guidance == tick_guidance(cs, bots, m)
        r == step_nanobots(1, bots, u.cells, ZeroSources, errs, guidance, ins)
        env2 == deposit_row(env1, r.ss)
        env3 == env_step(env2, NoDt)
        zeroed == [env EXCEPT !.substrates =
                     [n \in DOMAIN env.substrates |->
                        reset_sources_sinks(env.substrates[n])]]
        written == deposit_row(apply_vessel_sources(vs, 1, zeroed), r.ss)
    IN IF u.raised
       THEN [cells |-> cs, bots |-> bots, env |-> env0, errors |-> errs,
             model |-> [m EXCEPT !.step_count = step_count,
                                 !.raised = TRUE,
                                 !.trace = <<"reset">>,
                                 !.guidance = [a \in DOMAIN bots |-> 0],
                                 !.at_first_write = accumulators(env0),
                                 !.deposited = ZeroAccumulators(env),
                                 !.integrated = ZeroAccumulators(env)]]
       ELSE IF r.raised
       THEN [cells |-> r.cells, bots |-> r.bots, env |-> env2, errors |-> r.errors,
             model |-> [m EXCEPT !.step_count = step_count,
                                 !.raised = TRUE,
                                 !.trace = <<"reset", "cells", "vessels">>
                                    \o (IF is_queen_tick(m, step_count)
                                        THEN <<"queen">> ELSE <<>>),
                                 !.guidance = guidance,
                                 !.at_first_write = accumulators(u.env),
                                 !.deposited = accumulators(written),
                                 !.integrated = ZeroAccumulators(env)]]
       ELSE [cells |-> r.cells, bots |-> r.bots, env |-> env3, errors |-> r.errors,
             model |-> [m EXCEPT !.step_count = step_count,
                                 !.raised = FALSE,
                                 !.trace = <<"reset", "cells", "vessels">>
                                    \o (IF is_queen_tick(m, step_count)
                                        THEN <<"queen">> ELSE <<>>)
                                    \o <<"agents", "diffusion", "metrics">>,
                                 !.guidance = guidance,
                                 !.metrics = update_metrics(r.cells, r.bots),
                                 !.at_first_write = accumulators(u.env),
                                 !.deposited = accumulators(written),
                                 !.integrated = accumulators(env2)]]

MaxTicks == 11

\* create_simple_tumor_environment: a radius too small for any cell gives no
\* or one vessel; otherwise there are cells and at least one vessel
Geometries ==
    {[cells |-> <<>>, vessels |-> vs] : vs \in {<<>>, <<10>>}}
    \cup {[cells |-> cs, vessels |-> vs] :
            cs \in GeneratedCells, vs \in {<<10>>, <<50, 10>>}}

InitTick ==
    /\ \E g \in Geometries : cells = g.cells /\ vessels = g.vessels
    /\ \E agent_type \in AgentTypes : \E start \in [AgentIds -> StartPositions] :
          nanobots = [a \in AgentIds |-> NanobotAgent(start[a], is_llm_of(agent_type, a))]
    /\ api_enabled \in BOOLEAN
    /\ source_sink = <<>>
    /\ microenv = model_microenv
    /\ \E with_queen \in BOOLEAN : \E use_llm_queen \in {q \in BOOLEAN : q => with_queen} :
          model = [step_count |-> 0,
                   with_queen |-> with_queen,
                   use_llm_queen |-> use_llm_queen,
                   raised |-> FALSE,
                   trace |-> <<>>,
                   guidance |-> [a \in AgentIds |-> 0],
                   metrics |-> update_metrics(cells, nanobots),
                   at_first_write |-> ZeroAccumulators(model_microenv),
                   deposited |-> ZeroAccumulators(model_microenv),
                   integrated |-> ZeroAccumulators(model_microenv)]
    /\ errors = <<>>
    /\ last = NoOp

\* what the agents read in one tick: nothing beside the queen's direction
\* when guided, else the inputs of a step
TickInputs(bots, guidance) ==
    {ins \in [DOMAIN bots -> UNION {StepInputs(bots[a]) : a \in DOMAIN bots}] :
        \A a \in DOMAIN bots :
            IF guidance[a] # 0
            THEN ins[a] = [NoInput EXCEPT !.guidance = guidance[a]]
            ELSE /\ ins[a] \in StepInputs(bots[a])
                 /\ ins[a].guidance = 0
                 /\ ins[a].trail # 0 => trail_laid(bots)}

ModelStep ==
    /\ model.step_count < MaxTicks
    /\ \E ins \in TickInputs(nanobots, tick_guidance(cells, nanobots, model)) :
          LET r == model_step(cells, vessels, nanobots, microenv, model, errors, ins)
          IN /\ errors = <<>>
             /\ errors' = r.errors
             /\ cells' = r.cells
             /\ nanobots' = r.bots
             /\ microenv' = r.env
             /\ model' = r.model
    /\ last' = [op |-> "model_step", id |-> 0]
    /\ UNCHANGED <<vessels, api_enabled, source_sink>>

NextTick == ModelStep \/ ClearErrors

SpecTick == InitTick /\ [][NextTick]_vars

-----------------------------------------------------------------------------
\* Claims about the tick

\* the phases of one complete step(), the queen's only on her ticks
PhaseOrder(m) ==
    <<"reset", "cells", "vessels">>
    \o (IF m.with_queen /\ m.step_count % queen_period = 0
        THEN <<"queen">> ELSE <<>>)
    \o <<"agents", "diffusion", "metrics">>

\* C4: in every TumorNanobotModel.step() the phases run in this order, each
\* exactly once: accumulator reset, all cell updates, all vessel writes, queen
\* guidance (on queen ticks only), all agent steps, one diffusion step,
\* metrics; so no cell, vessel or agent write follows the diffusion step
C4_PhaseOrder ==
    last.op = "model_step" => model.trace = PhaseOrder(model)

\* C5: in every tick every accumulator is all-zero when the first cell,
\* vessel or agent write of the tick is made, and what the diffusion step of
\* the tick integrates is exactly what was written in that tick; a tick
\* that never reaches its diffusion step has written nothing
C5_AccumulatorsFresh ==
    last.op = "model_step" =>
        /\ model.at_first_write = ZeroAccumulators(microenv)
        /\ model.integrated = model.deposited
        /\ "diffusion" \in {model.trace[i] : i \in DOMAIN model.trace}
             \/ model.deposited = ZeroAccumulators(microenv)

\* a second or later tick has integrated a vessel's oxygen source, while the
\* accumulator still held the vessel's source of the tick before
C5_Witness ==
    /\ last.op = "model_step"
    /\ model.step_count >= 2
    /\ "diffusion" \in {model.trace[i] : i \in DOMAIN model.trace}
    /\ \E v \in microenv.shape :
          /\ model.integrated["oxygen"][v] = (vessel_oxygen_supply * 1000) \div 2
          /\ microenv.substrates["oxygen"].source_sink[v]
               = (vessel_oxygen_supply * 1000) \div 2

\* C9: for a rule-based model without a queen whose geometry contains living
\* cells, every call of step() returns normally, increments step_count by
\* exactly 1 and advances the microenvironment time by dt
C9_StepReturns ==
    [][(/\ last'.op = "model_step"
        /\ \A a \in DOMAIN nanobots : ~nanobots[a].is_llm_controlled
        /\ ~model.with_queen
        /\ get_living_cells(cells) # {})
       => /\ ~model'.raised
          /\ model'.step_count = model.step_count + 1
          /\ microenv'.time = RatAdd(microenv.time, microenv.dt)]_vars

C15_QueenPeriod ==
    [][last'.op = "model_step" =>
          /\ "queen" \in {model'.trace[i] : i \in DOMAIN model'.trace}
                => model'.step_count % queen_period = 0
          /\ model'.step_count % queen_period # 0
                => model'.guidance = [a \in DOMAIN nanobots |-> 0]
          /\ (/\ ~model'.raised
              /\ model.with_queen
              /\ model'.step_count % queen_period = 0)
                => /\ "queen" \in {model'.trace[i] : i \in DOMAIN model'.trace}
                   /\ model'.guidance
                        = guide(model.use_llm_queen, cells, nanobots)]_vars

\* the tick after a queen tick: it completed without a queen phase and its
\* agents were stepped with the empty mapping
C15_Witness ==
    /\ last.op = "model_step"
    /\ model.with_queen
    /\ model.step_count = queen_period + 1
    /\ ~model.raised
    /\ "queen" \notin {model.trace[i] : i \in DOMAIN model.trace}
    /\ model.guidance = [a \in DOMAIN nanobots |-> 0]

-----------------------------------------------------------------------------
\* QueenNanobot.guide() called on model states drawn from bounded sets: cells
\* of every phase, an agent in every state

QueenPhases == {"viable", "hypoxic", "necrotic", "apoptotic"}
QueenPayloads == {0, queen_min_payload, queen_min_payload + 1, max_payload}
QueenPositions == {0, 20, 30, 40, 65}

\* a cell of the geometry in a given phase; Necrotic and Apoptotic are dead
cell_in_phase(c, phase) ==
    [TumorCell(cell_position(c), phase) EXCEPT
        !.is_alive = phase \in {"viable", "hypoxic"}]

InitQueen ==
    /\ \E phase \in [CellIds -> QueenPhases] :
          cells = [c \in CellIds |-> cell_in_phase(c, phase[c])]
    /\ vessels = <<10>>
    /\ \E position \in QueenPositions, state \in NanobotState,
          payload \in QueenPayloads, is_llm \in BOOLEAN :
          nanobots = [a \in AgentIds |->
                        [NanobotAgent(position, is_llm) EXCEPT
                            !.state = state, !.drug_payload = payload]]
    /\ api_enabled \in BOOLEAN
    /\ source_sink = ZeroSources
    /\ microenv = <<>>
    /\ \E use_llm \in BOOLEAN :
          model = [use_llm |-> use_llm, guidance |-> [a \in AgentIds |-> 0]]
    /\ errors = <<>>
    /\ last = NoOp

QueenGuide ==
    /\ model' = [model EXCEPT !.guidance = guide(model.use_llm, cells, nanobots)]
    /\ last' = [op |-> "guide", id |-> 0]
    /\ UNCHANGED <<cells, vessels, nanobots, api_enabled, source_sink, microenv, errors>>

NextQueen == QueenGuide

SpecQueen == InitQueen /\ [][NextQueen]_vars

\* C16: whatever the mode, guide() returns the mapping of the heuristic: an
\* agent has an entry iff it is Searching with payload above 20 and there is
\* a Hypoxic cell, the nearest at non-zero distance; the entry is the unit
\* direction toward a nearest Hypoxic cell
C16_GuideModesAgree ==
    last.op = "guide" =>
        LET hypoxic == {c \in CellIds : cells[c].phase = "hypoxic"}
            dist(a, c) == Abs(cells[c].position - nanobots[a].position)
            nearest(a) == {c \in hypoxic : \A d \in hypoxic : dist(a, c) <= dist(a, d)}
        IN  /\ model.guidance = guide_with_heuristic(cells, nanobots)
            /\ \A a \in AgentIds :
                  /\ model.guidance[a] # 0
                       <=> /\ nanobots[a].state = "searching"
                           /\ nanobots[a].drug_payload > queen_min_payload
                           /\ hypoxic # {}
                           /\ \A c \in nearest(a) : dist(a, c) > 0
                  /\ model.guidance[a] # 0
                       => \E c \in nearest(a) :
                             model.guidance[a] * dist(a, c)
                               = cells[c].position - nanobots[a].position

\* the queen in advisory mode, client available, has given an entry
C16_Witness ==
    /\ last.op = "guide"
    /\ model.use_llm
    /\ api_enabled
    /\ \E a \in AgentIds : model.guidance[a] # 0
-----------------------------------------------------------------------------
\* run_tumor_simulation (src/backend/main.py): the model is built, stepped
\* max_steps times with one snapshot per step, and finalized.  The run's
\* position, its history and the blockchain flag are kept in `model`, beside
\* every message log_error was called with (logged).

MaxRunSteps == 2

BlockchainOutcomes == {"tx", "none", "raises"}

\* TumorNanobotModel.__init__, the blockchain part: a failed initialisation is
\* logged and disables the blockchain
init_blockchain(available, outcome) ==
    IF available /\ outcome = "raises"
    THEN [blockchain_enabled |-> FALSE,
          errors |-> log_error(<<>>, "Blockchain initialization failed")]
    ELSE [blockchain_enabled |-> available, errors |-> <<>>]

\* TumorNanobotModel.finalize_simulation: only a raising completion is logged
finalize_simulation(m, errs, outcome) ==
    IF m.blockchain_enabled /\ outcome = "raises"
    THEN log_error(errs, "Failed to finalize simulation on blockchain")
    ELSE errs

RECURSIVE Flatten(_)
Flatten(seqs) == IF seqs = <<>> THEN <<>> ELSE Head(seqs) \o Flatten(Tail(seqs))

InitRun ==
    /\ \E g \in Geometries : cells = g.cells /\ vessels = g.vessels
    /\ \E agent_type \in AgentTypes : \E start \in [AgentIds -> StartPositions] :
          nanobots = [a \in AgentIds |-> NanobotAgent(start[a], is_llm_of(agent_type, a))]
    /\ api_enabled = TRUE
    /\ source_sink = <<>>
    /\ microenv = model_microenv
    /\ \E available \in BOOLEAN, outcome \in BlockchainOutcomes :
       \E max_steps \in 1 .. MaxRunSteps :
       \E with_queen \in BOOLEAN : \E use_llm_queen \in {q \in BOOLEAN : q => with_queen} :
          LET b == init_blockchain(available, outcome)
          IN  /\ errors = b.errors
              /\ model = [step_count |-> 0,
                          with_queen |-> with_queen,
                          use_llm_queen |-> use_llm_queen,
                          raised |-> FALSE,
                          trace |-> <<>>,
                          guidance |-> [a \in AgentIds |-> 0],
                          metrics |-> update_metrics(cells, nanobots),
                          at_first_write |-> ZeroAccumulators(model_microenv),
                          deposited |-> ZeroAccumulators(model_microenv),
                          integrated |-> ZeroAccumulators(model_microenv),
                          blockchain_enabled |-> b.blockchain_enabled,
                          max_steps |-> max_steps,
                          pc |-> "loop",
                          history |-> <<>>,
                          logged |-> b.errors]
    /\ last = NoOp

\* one pass of `for step_num in range(config.max_steps)`: model.step(), the
\* snapshot with errors=model.errors.copy(), model.errors.clear().  An
\* exception of model.step() leaves the loop for the handler's except clause
\* (HTTP 500): no snapshot is taken and nothing is returned.
RunIteration ==
    /\ model.pc = "loop"
    /\ Len(model.history) < model.max_steps
    /\ \E ins \in TickInputs(nanobots, tick_guidance(cells, nanobots, model)) :
          \E r \in {model_step(cells, vessels, nanobots, microenv, model, errors, ins)} :
          LET new == SubSeq(r.errors, Len(errors) + 1, Len(r.errors))
          IN /\ cells' = r.cells
             /\ nanobots' = r.bots
             /\ microenv' = r.env
             /\ IF r.model.raised
                THEN /\ errors' = r.errors
                     /\ model' = [r.model EXCEPT !.pc = "failed",
                                                 !.logged = @ \o new]
                ELSE /\ errors' = <<>>
                     /\ model' = [r.model EXCEPT !.history = Append(@, r.errors),
                                                 !.logged = @ \o new]
    /\ last' = [op |-> "run_iteration", id |-> 0]
    /\ UNCHANGED <<vessels, api_enabled, source_sink>>

\* after the loop: model.finalize_simulation(), then the result is returned
RunFinalize ==
    /\ model.pc = "loop"
    /\ Len(model.history) = model.max_steps
    /\ \E outcome \in BlockchainOutcomes :
          LET errs == finalize_simulation(model, errors, outcome)
          IN  /\ errors' = errs
              /\ model' = [model EXCEPT !.pc = "returned",
                                        !.logged = @ \o SubSeq(errs, Len(errors) + 1, Len(errs))]
    /\ last' = [op |-> "finalize", id |-> 0]
    /\ UNCHANGED <<cells, vessels, nanobots, api_enabled, source_sink, microenv>>

NextRun == RunIteration \/ RunFinalize

SpecRun == InitRun /\ [][NextRun]_vars

\* C22: when the run is over, the messages of the step snapshots, taken
\* together, are the logged messages, each once; and the error list is empty
\* at the start of every tick after the first
C22_ErrorsSurfacedOnce ==
    /\ model.pc \in {"returned", "failed"} => Flatten(model.history) = model.logged
    /\ (model.pc = "loop" /\ model.step_count >= 1) => errors = <<>>

-----------------------------------------------------------------------------
\* Setting a model up: the endpoints of src/backend/main.py that build a
\* TumorNanobotModel from a request, their validation, the constructor, and
\* the first model.step().  `model` holds the request and its position.

ValidatedEndpoints == {"tumor_run", "tumor_performance", "tumor_compare"}
EntryPoints == ValidatedEndpoints \cup {"run_with_brats"}

DomainSizes == {-600, 0, 600}
VoxelSizes == {-700, -20, 0, 20}
AgentCounts == {-1, 0, 1, 100, 101}

\* the radius of create_synthetic_tumor_geometry, and the least domain of
\* run_tumor_simulation_with_brats
synthetic_tumor_radius == 200
brats_min_domain == 600

\* TumorSimulationConfig: domain_size gt=0, voxel_size gt=0, n_nanobots gt=0
\* le=100, checked before the handler runs (HTTP 422)
tumor_config_valid(c) ==
    /\ c.domain_size > 0
    /\ c.voxel_size > 0
    /\ c.n_nanobots > 0
    /\ c.n_nanobots <= 100

\* BraTSSimulationConfig declares n_nanobots: int and voxel_size: float with no
\* constraint
brats_config_valid(c) == TRUE

\* TumorNanobotModel.__init__ validates nothing.  Microenvironment.__init__
\* computes nx = int((x1 - x0) / dx) + 1: a zero spacing raises
\* ZeroDivisionError, and np.full raises ValueError for a negative dimension.
\* `for i in range(n_nanobots)` accepts every count.
constructor_raises(c) ==
    \/ c.voxel_size = 0
    \/ TruncDiv(c.domain_size, c.voxel_size) + 1 < 0

\* the arguments an endpoint passes to the constructor for a request
Requests ==
    {[entry |-> e, domain_size |-> d, voxel_size |-> v, n_nanobots |-> n] :
        e \in ValidatedEndpoints, d \in DomainSizes, v \in VoxelSizes, n \in AgentCounts}
    \cup {[entry |-> "run_with_brats",
           domain_size |-> Max(brats_min_domain, synthetic_tumor_radius * 3),
           voxel_size |-> v, n_nanobots |-> n] : v \in VoxelSizes, n \in AgentCounts}

InitSetup ==
    /\ cells = <<>>
    /\ vessels = <<>>
    /\ nanobots = <<>>
    /\ api_enabled = TRUE
    /\ source_sink = <<>>
    /\ microenv = <<>>
    /\ \E c \in Requests : model = [config |-> c, pc |-> "request", step_calls |-> 0]
    /\ errors = <<>>
    /\ last = NoOp

\* the request is validated against its schema, then the handler builds the
\* model
BuildModel ==
    /\ model.pc = "request"
    /\ LET c == model.config
           valid == IF c.entry \in ValidatedEndpoints
                    THEN tumor_config_valid(c) ELSE brats_config_valid(c)
       IN  model' = [model EXCEPT !.pc = IF ~valid \/ constructor_raises(c)
                                         THEN "rejected" ELSE "built"]
    /\ last' = [op |-> "build_model", id |-> 0]
    /\ UNCHANGED <<cells, vessels, nanobots, api_enabled, source_sink, microenv, errors>>

\* the handler's loop calls model.step()
FirstStep ==
    /\ model.pc = "built"
    /\ model' = [model EXCEPT !.pc = "stepping", !.step_calls = 1]
    /\ last' = [op |-> "first_step", id |-> 0]
    /\ UNCHANGED <<cells, vessels, nanobots, api_enabled, source_sink, microenv, errors>>

NextSetup == BuildModel \/ FirstStep

SpecSetup == InitSetup /\ [][NextSetup]_vars

\* C23: for a request with domain size <= 0, voxel spacing <= 0 or an agent
\* count outside 1..100, model.step() is never called
C23_InvalidRejected ==
    (\/ model.config.domain_size <= 0
     \/ model.config.voxel_size <= 0
     \/ model.config.n_nanobots < 1
     \/ model.config.n_nanobots > 100)
    => model.step_calls = 0

-----------------------------------------------------------------------------
\* Two runs of the tumor simulation with one configuration.  Every handler
\* seeds the generators before it builds its model (np.random.seed(42),
\* random.seed(42)); a run then draws its agents' starting positions and its
\* random-walk angles from the seeded stream, and reads everything else from
\* its own model.  Each variable holds the state of both runs, indexed by run;
\* the geometry is the one the configuration and the seed generate.

Runs == {1, 2}
run_seed == 42
Draws == 0 .. 2
MaxDraws == 3
MaxTwinTicks == 2

\* the k-th draw of a generator seeded with `seed`: table is the stream of
\* run_seed, and another seed gives another stream
random_draw(rng) ==
    (rng.table[(rng.draws % MaxDraws) + 1] + (rng.seed - run_seed)) % 3

seed_of_run_left_unseeded(run) == run_seed + (run - 1)

\* np.random.seed(42); random.seed(42) at the start of every run
seed_of_run(run) == run_seed

\* an agent's starting position, from one draw
start_position(draw) == <<3, 30, 65>>[draw + 1]

\* the x component of the random step: speed * cos(angle)
angle_direction(draw) == 1 - draw

Sign(x) == IF x > 0 THEN 1 ELSE IF x < 0 THEN -1 ELSE 0

\* Microenvironment.get_gradient_at on the agents' row, times 2 * dx: the
\* central differences at the voxel clipped into the interior
get_gradient_at(env, name, x) ==
    LET C == env.substrates[name].concentration
        i == clip(TruncDiv(x, env.dx), 1, env.nx - 2)
        j == clip(TruncDiv(domain_size \div 2, env.dy), 1, env.ny - 2)
    IN  <<C[<<i + 1, j, 0>>] - C[<<i - 1, j, 0>>],
          C[<<i, j + 1, 0>>] - C[<<i, j - 1, 0>>]>>

\* chemotaxis_weights, times ten
chemotaxis_weights == [oxygen |-> -10, trail |-> 8, alarm |-> -5, recruitment |-> 6]

\* NanobotAgent._compute_chemotaxis_direction
compute_chemotaxis_direction(env, x) ==
    LET g(name) == get_gradient_at(env, name, x)
        w == chemotaxis_weights
    IN  << w.oxygen * g("oxygen")[1] + w.trail * g("trail")[1]
             + w.alarm * g("alarm")[1] + w.recruitment * g("recruitment")[1],
           w.oxygen * g("oxygen")[2] + w.trail * g("trail")[2]
             + w.alarm * g("alarm")[2] + w.recruitment * g("recruitment")[2] >>

\* what the rule-based agents of one run read in a tick, agent by agent: the
\* queen's direction when guided; in Searching the chemotaxis direction, or a
\* draw of the generator when the gradient sum is zero
RECURSIVE seeded_inputs(_, _, _, _, _, _)
seeded_inputs(a, bots, env, guidance, rng, ins) ==
    IF a > Len(bots) THEN [ins |-> ins, rng |-> rng]
    ELSE IF guidance[a] # 0
    THEN seeded_inputs(a + 1, bots, env, guidance, rng,
                       [ins EXCEPT ![a] = [NoInput EXCEPT !.guidance = guidance[a]]])
    ELSE IF bots[a].state # "searching"
    THEN seeded_inputs(a + 1, bots, env, guidance, rng, ins)
    ELSE LET total == compute_chemotaxis_direction(env, bots[a].position)
         IN  IF total # <<0, 0>>
             THEN seeded_inputs(a + 1, bots, env, guidance, rng,
                                [ins EXCEPT ![a] = [NoInput EXCEPT !.direction = Sign(total[1])]])
             ELSE seeded_inputs(a + 1, bots, env, guidance,
                                [rng EXCEPT !.draws = @ + 1],
                                [ins EXCEPT ![a] = [NoInput EXCEPT
                                     !.direction = angle_direction(random_draw(rng))]])

InitTwin ==
    /\ \E g \in Geometries : vessels = g.vessels /\ cells = [run \in Runs |-> g.cells]
    /\ api_enabled = TRUE
    /\ source_sink = <<>>
    /\ microenv = [run \in Runs |-> model_microenv]
    /\ errors = [run \in Runs |-> <<>>]
    /\ \E table \in [1 .. MaxDraws -> Draws] :
       \E with_queen \in BOOLEAN :
          LET seeded(run) == [table |-> table, seed |-> seed_of_run(run), draws |-> 0]
              bots(run) == [a \in AgentIds |->
                              NanobotAgent(start_position(random_draw(
                                  [seeded(run) EXCEPT !.draws = a - 1])), FALSE)]
          IN  /\ nanobots = [run \in Runs |-> bots(run)]
              /\ model = [run \in Runs |->
                            [step_count |-> 0,
                             with_queen |-> with_queen,
                             use_llm_queen |-> FALSE,
                             raised |-> FALSE,
                             trace |-> <<>>,
                             guidance |-> [a \in AgentIds |-> 0],
                             metrics |-> update_metrics(cells[run], bots(run)),
                             at_first_write |-> ZeroAccumulators(model_microenv),
                             deposited |-> ZeroAccumulators(model_microenv),
                             integrated |-> ZeroAccumulators(model_microenv),
                             rng |-> [seeded(run) EXCEPT !.draws = Cardinality(AgentIds)]]]
    /\ last = NoOp

\* model.step() of one run
TwinStep(run) ==
    /\ model[run].step_count < MaxTwinTicks
    /\ ~model[run].raised
    /\ \E m \in {model[run]} :
       \E read \in {seeded_inputs(1, nanobots[run], microenv[run],
                                  tick_guidance(cells[run], nanobots[run], m), m.rng,
                                  [a \in AgentIds |-> NoInput])} :
       \E r \in {model_step(cells[run], vessels, nanobots[run], microenv[run], m,
                            errors[run], read.ins)} :
           /\ cells' = [cells EXCEPT ![run] = r.cells]
           /\ nanobots' = [nanobots EXCEPT ![run] = r.bots]
           /\ microenv' = [microenv EXCEPT ![run] = r.env]
           /\ errors' = [errors EXCEPT ![run] = r.errors]
           /\ model' = [model EXCEPT ![run] =
                          [r.model EXCEPT !.rng = IF r.model.raised THEN m.rng ELSE read.rng]]
    /\ last' = [op |-> "model_step", id |-> run]
    /\ UNCHANGED <<vessels, api_enabled, source_sink>>

NextTwin == \E run \in Runs : TwinStep(run)

SpecTwin == InitTwin /\ [][NextTwin]_vars

-----------------------------------------------------------------------------
\* The event log: log_cell_interaction and log_nanobot_reload, called from
\* inside the agents' handlers.  The log is off (blockchain disabled or no run
\* hash), on and writing, or on with every write raising; `model` holds the
\* mode, and `last` the input of the step and the entries it wrote.

SinkModes == {"disabled", "succeeding", "raising"}

log_cell_interaction_uncaught(sink, interaction_type) ==
    [errors |-> <<>>,
     logs |-> IF sink = "succeeding" THEN <<interaction_type>> ELSE <<>>,
     escaped |-> sink = "raising"]

\* TumorNanobotModel.log_cell_interaction: returns at once when the log is
\* off; the whole body is in try/except Exception, which logs the failure
log_cell_interaction(sink, interaction_type) ==
    [errors |-> IF sink = "raising"
                THEN log_error(<<>>, "Failed to log cell interaction") ELSE <<>>,
     logs |-> IF sink = "succeeding" THEN <<interaction_type>> ELSE <<>>,
     escaped |-> FALSE]

\* TumorNanobotModel.log_nanobot_reload, built the same way
log_nanobot_reload(sink) ==
    [errors |-> IF sink = "raising"
                THEN log_error(<<>>, "Failed to log nanobot reload") ELSE <<>>,
     logs |-> IF sink = "succeeding" THEN <<"nanobot_reload">> ELSE <<>>,
     escaped |-> FALSE]

NoCall == [errors |-> <<>>, logs |-> <<>>, escaped |-> FALSE]

\* NanobotAgent.step of a rule-based agent with its log calls.  An exception
\* leaving a log call would end the handler at the call, with the assignments
\* made before it.
logged_step(n, cs, ss, in, sink) ==
    LET r == step(n, cs, ss, in.guidance, in.action, in.trail, in.direction)
        done(calls) == [bot |-> r.bot, cells |-> r.cells, ss |-> r.ss, raised |-> r.raised,
                        errors |-> calls.errors, logs |-> calls.logs]
        cut(bot, cells1, ss1, calls) ==
            [bot |-> bot, cells |-> cells1, ss |-> ss1, raised |-> TRUE,
             errors |-> calls.errors, logs |-> calls.logs]
        join(c1, c2) == [errors |-> c1.errors \o c2.errors, logs |-> c1.logs \o c2.logs,
                         escaped |-> c2.escaped]
    IN  CASE n.state = "searching" /\ r.bot.state = "targeting" ->
                LET c == log_cell_interaction(sink, "cell_targeted")
                IN  IF c.escaped THEN cut(r.bot, r.cells, r.ss, c) ELSE done(c)
          [] n.state = "delivering" /\ n.target_cell # NoRef
               /\ cs[n.target_cell].is_alive /\ n.drug_payload > 0 ->
                LET amount == Min(n.drug_payload, delivery_per_step)
                    released == [n EXCEPT !.drug_payload = @ - amount,
                                          !.total_drug_delivered = @ + amount]
                    ss1 == add_source(ss, "drug", position_to_voxel(n.position), amount)
                    c1 == log_cell_interaction(sink, "drug_delivered")
                    killed == ~r.cells[n.target_cell].is_alive
                    c2 == IF killed THEN join(c1, log_cell_interaction(sink, "cell_killed"))
                          ELSE c1
                IN  IF c1.escaped THEN cut(released, cs, ss1, c1)
                    ELSE IF c2.escaped THEN cut(released, r.cells, ss1, c2)
                    ELSE done(c2)
          [] n.state = "reloading" /\ n.drug_payload * 2 < max_payload ->
                LET c == log_nanobot_reload(sink)
                IN  IF c.escaped
                    THEN cut([n EXCEPT !.drug_payload = r.bot.drug_payload], cs, ss, c)
                    ELSE done(c)
          [] OTHER -> done(NoCall)

InitSink ==
    /\ cells \in GeneratedCells
    /\ vessels \in VesselLayouts
    /\ \E start \in [AgentIds -> StartPositions] :
          nanobots = [a \in AgentIds |-> NanobotAgent(start[a], FALSE)]
    /\ api_enabled = TRUE
    /\ source_sink = ZeroSources
    /\ microenv = <<>>
    /\ \E sink \in SinkModes : model = [sink |-> sink]
    /\ errors = <<>>
    /\ last = [op |-> "init", id |-> 0, in |-> NoInput, logs |-> <<>>]

SinkStep(a, in) ==
    /\ in.guidance = 0
    /\ nanobots[a].state = "delivering" =>
          /\ nanobots[a].deliveries_made < MaxDeliveries
          /\ Deposits(source_sink) < MaxDeposits
    /\ errors = <<>>
    /\ LET r == logged_step(nanobots[a], cells, source_sink, in, model.sink)
       IN  /\ nanobots' = [nanobots EXCEPT ![a] = r.bot]
           /\ cells' = r.cells
           /\ source_sink' = r.ss
           /\ errors' = errors \o r.errors
           /\ last' = [op |-> IF r.raised THEN "step_raised" ELSE "step", id |-> a,
                       in |-> in, logs |-> r.logs]
    /\ UNCHANGED <<vessels, api_enabled, microenv, model>>

SinkClearErrors ==
    /\ errors # <<>>
    /\ errors' = <<>>
    /\ last' = [op |-> "clear_errors", id |-> 0, in |-> NoInput, logs |-> <<>>]
    /\ UNCHANGED <<cells, vessels, nanobots, api_enabled, source_sink, microenv, model>>

SinkReset ==
    /\ errors = <<>>
    /\ source_sink # ZeroSources
    /\ source_sink' = reset_all_sources_sinks(source_sink)
    /\ last' = [op |-> "reset_all_sources_sinks", id |-> 0, in |-> NoInput, logs |-> <<>>]
    /\ UNCHANGED <<cells, vessels, nanobots, api_enabled, microenv, model, errors>>

NextSink ==
    \/ \E a \in AgentIds : \E in \in StepInputs(nanobots[a]) : SinkStep(a, in)
    \/ SinkClearErrors
    \/ SinkReset

SpecSink == InitSink /\ [][NextSink]_vars

\* C25: whatever the log's mode, an agent step leaves the agent, the cells
\* and the accumulators exactly as the same step does with the log off, and
\* no exception leaves the step
C25_SinkNonInterference ==
    [][\A a \in AgentIds :
          (last'.id = a /\ last'.op \in {"step", "step_raised"})
          => LET ref == logged_step(nanobots[a], cells, source_sink, last'.in, "disabled")
             IN  /\ nanobots'[a] = ref.bot
                 /\ cells' = ref.cells
                 /\ source_sink' = ref.ss
                 /\ last'.op = "step"]_vars

\* with every write raising, a step released the whole payload, killed its
\* target and went Returning; both failed writes are in the error list
C25_Witness ==
    \E a \in AgentIds :
        /\ model.sink = "raising"
        /\ last.op = "step" /\ last.id = a
        /\ nanobots[a].state = "returning"
        /\ nanobots[a].drug_payload = 0
        /\ nanobots[a].total_drug_delivered = 100
        /\ \E c \in CellIds : ~cells[c].is_alive /\ cells[c].accumulated_drug = 100
        /\ errors = <<"Failed to log cell interaction", "Failed to log cell interaction">>

\* ------------------------------------------------------------------------
\* /simulation/compare: two legs of SimpleForagingModel on a two-worker
\* thread pool, and the handler that gathers them under a timeout.
\* The grid is one row of grid_width sites with one ant and one food pile.
\* numpy's and random's module-level generators are process-wide; a
\* generator is the number of draws since it was last seeded.
\* ------------------------------------------------------------------------
Legs == {1, 2}
grid_width == 4
CompareSteps == {1, 2}
NoSite == -1

\* np.random.randint(n), the draw at position i of the stream seeded with 42
randint(i, n) == (run_seed + 3 * i) % n

\* random.random() in tenths, the draw at position i of the seeded stream
random_tenths(i) == (run_seed + 3 * i) % 10

get_neighborhood(x) == SelectSeq(<<x - 1, x + 1>>, LAMBDA s : s >= 0 /\ s < grid_width)

\* min(moves, key = distance to the target): the first of the nearest moves
RECURSIVE nearest_first(_, _)
nearest_first(moves, target) == IF Len(moves) = 1 THEN moves[1] ELSE LET rest == nearest_first(Tail(moves), target) IN IF Abs(moves[1] - target) <= Abs(rest - target) THEN moves[1] ELSE rest

_step_toward(start, target) == IF get_neighborhood(start) = <<>> THEN start ELSE nearest_first(get_neighborhood(start), target)

_find_nearest_food(leg) == IF leg.foods = {} THEN NoSite ELSE CHOOSE f \in leg.foods : \A g \in leg.foods : Abs(f - leg.pos) <= Abs(g - leg.pos)

\* QueenAnt._guide_with_heuristic for the one ant
_guide_with_heuristic(leg) ==
    LET moves == get_neighborhood(leg.pos) \o <<leg.pos>>
    IN  IF leg.foods = {} THEN NoSite
        ELSE IF leg.carrying_food THEN nearest_first(moves, grid_width \div 2)
        ELSE nearest_first(moves, _find_nearest_food(leg))

\* SimpleAntAgent._use_rule_based_behavior; the random fallback draws from
\* random's generator
_use_rule_based_behavior(leg, rng) ==
    LET steps == get_neighborhood(leg.pos)
    IN  IF leg.pos \in leg.foods /\ ~leg.carrying_food THEN [pos |-> leg.pos, rng |-> rng]
        ELSE IF leg.carrying_food THEN [pos |-> _step_toward(leg.pos, grid_width \div 2), rng |-> rng]
        ELSE IF leg.foods # {} THEN [pos |-> _step_toward(leg.pos, _find_nearest_food(leg)), rng |-> rng]
        ELSE IF steps = <<>> THEN [pos |-> leg.pos, rng |-> rng]
        ELSE [pos |-> steps[1 + (randint(rng.py, Len(steps)))], rng |-> [rng EXCEPT !.py = @ + 1]]

\* SimpleForagingModel.step with a heuristic queen or none: the ant moves,
\* picks food up where it stands, and at home drops it with chance 0.3
foraging_step(leg, rng) ==
    LET guided == IF leg.with_queen THEN _guide_with_heuristic(leg) ELSE NoSite
        moved  == IF leg.pos \in leg.foods /\ ~leg.carrying_food THEN [pos |-> leg.pos, rng |-> rng]
                  ELSE IF guided # NoSite THEN [pos |-> guided, rng |-> rng]
                  ELSE _use_rule_based_behavior(leg, rng)
        picks  == moved.pos \in leg.foods /\ ~leg.carrying_food
        held   == leg.carrying_food \/ picks
        home   == grid_width \div 2
        draws  == held /\ Abs(moved.pos - home) <= 1
        drops  == draws /\ random_tenths(moved.rng.py) < 3
    IN  [leg |-> [leg EXCEPT !.pos = moved.pos,
                             !.foods = IF picks THEN @ \ {moved.pos} ELSE @,
                             !.food_collected = IF picks THEN @ + 1 ELSE @,
                             !.carrying_food = held /\ ~drops,
                             !.step = @ + 1],
         rng |-> IF draws THEN [moved.rng EXCEPT !.py = @ + 1] ELSE moved.rng]

\* one uninterrupted piece of _run_comparison_leg: it reads or writes the
\* shared generators at most once
leg_advance(leg, rng, steps) ==
    CASE leg.pc = "seed_np" -> [leg |-> [leg EXCEPT !.pc = "seed_py"], rng |-> [rng EXCEPT !.np = 0]]
      [] leg.pc = "seed_py" -> [leg |-> [leg EXCEPT !.pc = "foods"], rng |-> [rng EXCEPT !.py = 0]]
      [] leg.pc = "foods"   -> [leg |-> [leg EXCEPT !.pc = "ants", !.foods = {randint(rng.np, grid_width)}], rng |-> [rng EXCEPT !.np = @ + 1]]
      [] leg.pc = "ants"    -> [leg |-> [leg EXCEPT !.pc = "loop", !.pos = randint(rng.np, grid_width)], rng |-> [rng EXCEPT !.np = @ + 1]]
      [] leg.pc = "loop"    -> IF leg.step >= steps \/ leg.foods = {}
                               THEN [leg |-> [leg EXCEPT !.pc = "done", !.result = leg.food_collected], rng |-> rng]
                               ELSE foraging_step(leg, rng)
      [] OTHER              -> [leg |-> leg, rng |-> rng]

NewLeg(with_queen) == [pc |-> "seed_np", with_queen |-> with_queen, foods |-> {}, pos |-> NoSite, carrying_food |-> FALSE, food_collected |-> 0, step |-> 0, result |-> NoSite]

\* the leg run to its end on a generator nobody else touches
RECURSIVE run_alone(_, _, _)
run_alone(leg, rng, steps) == IF leg.pc = "done" THEN leg.result ELSE LET nxt == leg_advance(leg, rng, steps) IN run_alone(nxt.leg, nxt.rng, steps)

\* both legs submitted to the pool; the handler awaits the gather
InitCompare ==
    /\ cells = <<>>
    /\ vessels = <<>>
    /\ nanobots = <<>>
    /\ api_enabled = TRUE
    /\ source_sink = <<>>
    /\ microenv = <<>>
    /\ \E steps \in CompareSteps, np \in 0 .. 1, py \in 0 .. 1 :
          model = [comparison_steps |-> steps,
                   rng |-> [np |-> np, py |-> py],
                   legs |-> [l \in Legs |-> NewLeg(l = 1)],
                   handler |-> [pc |-> "waiting", status |-> 0, timed_out |-> FALSE]]
    /\ errors = <<>>
    /\ last = NoOp

BothDone == \A l \in Legs : model.legs[l].pc = "done"

\* a worker thread runs its leg's next piece
LegAdvance(l) ==
    /\ model.legs[l].pc # "done"
    /\ LET nxt == leg_advance(model.legs[l], model.rng, model.comparison_steps)
       IN  model' = [model EXCEPT !.legs[l] = nxt.leg, !.rng = nxt.rng]
    /\ last' = [op |-> "leg_advance", id |-> l]
    /\ UNCHANGED <<cells, vessels, nanobots, api_enabled, source_sink, microenv, errors>>

\* the gather completes in time: the finally clause joins an idle pool and
\* the result is returned
Gathered ==
    /\ model.handler.pc = "waiting"
    /\ BothDone
    /\ model' = [model EXCEPT !.handler = [pc |-> "responded", status |-> 200, timed_out |-> FALSE]]
    /\ last' = [op |-> "gathered", id |-> 0]
    /\ UNCHANGED <<cells, vessels, nanobots, api_enabled, source_sink, microenv, errors>>

\* wait_for times out: shutdown(wait=False), HTTPException(408) is raised,
\* and the finally clause calls shutdown(wait=True) before it propagates
TimedOut ==
    /\ model.handler.pc = "waiting"
    /\ ~BothDone
    /\ model' = [model EXCEPT !.handler = [pc |-> "joining", status |-> 0, timed_out |-> TRUE]]
    /\ last' = [op |-> "timed_out", id |-> 0]
    /\ UNCHANGED <<cells, vessels, nanobots, api_enabled, source_sink, microenv, errors>>

\* shutdown(wait=True) returns once both worker threads have finished; the
\* exception leaves the handler as the 408 response
Joined ==
    /\ model.handler.pc = "joining"
    /\ BothDone
    /\ model' = [model EXCEPT !.handler = [pc |-> "responded", status |-> 408, timed_out |-> TRUE]]
    /\ last' = [op |-> "joined", id |-> 0]
    /\ UNCHANGED <<cells, vessels, nanobots, api_enabled, source_sink, microenv, errors>>

NextCompare ==
    \/ \E l \in Legs : LegAdvance(l)
    \/ Gathered
    \/ TimedOut
    \/ Joined

SpecCompare == InitCompare /\ [][NextCompare]_vars

\* C26: a finished leg's food count is the count the same leg reaches when
\* it runs alone from the same seed
C26_LegsIndependent ==
    \A l \in Legs :
        model.legs[l].pc = "done"
        => model.legs[l].result = run_alone(NewLeg(l = 1), model.rng, model.comparison_steps)

\* C27: once the timeout has expired the 408 response does not depend on
\* the legs: it is already produced or the handler can produce it now
C27_TimeoutWithoutWaiting ==
    model.handler.timed_out => (model.handler.status = 408 \/ ENABLED Joined)

\* ------------------------------------------------------------------------
\* The cell phase of a tick on cells that carry a history: the cell methods
\* are called directly, as on SpecCell, and _update_tumor_cells runs over
\* the same cells with the local oxygen and drug values it reads.
\* ------------------------------------------------------------------------

\* the oxygen and drug values the tick reads at a cell: low and normal
\* oxygen, and a drug level that adds a lethal dose within one dt of 20
TickOxygen == {4, 38}
TickDrug == {50}

\* _update_tumor_cells with oxygen, drug and dt as read for every cell
UpdateTumorCells(o, d, dt) ==
    /\ LET u == update_tumor_cells(cells, microenv)
       IN  /\ cells' = u.cells
           /\ last' = [op |-> IF u.raised THEN "update_tumor_cells_raised" ELSE "update_tumor_cells", id |-> 0, oxygen |-> o, drug |-> d, dt |-> dt]
    /\ UNCHANGED <<vessels, nanobots, api_enabled, source_sink, microenv, model, errors>>

NextCellTick ==
    \/ \E c \in CellIds, o \in OxygenLevels, dt \in Timesteps : UpdateOxygenStatus(c, o, dt)
    \/ \E c \in CellIds, d \in DrugLevels, dt \in Timesteps : AbsorbDrug(c, d, dt)
    \/ \E c \in CellIds, amount \in DrugAmounts : AccumulateDrug(c, amount)
    \/ \E o \in TickOxygen, d \in TickDrug, dt \in Timesteps : UpdateTumorCells(o, d, dt)

SpecCellTick == InitCell /\ [][NextCellTick]_vars

\* the tag is written in the call that ends the cell's life and in no other
CauseSetAtDeath(c) ==
    /\ (cells'[c].time_of_death # cells[c].time_of_death) <=> (cells[c].is_alive /\ ~cells'[c].is_alive)
    /\ ~cells'[c].is_alive => cells'[c].time_of_death # "none"

\* a living cell whose low-oxygen time passes the threshold with this dt and
\* whose dose would reach the lethal dose with this drug level
NecrosisAndLethalDrug(c, o, d, dt) ==
    /\ cells[c].is_alive
    /\ o < hypoxic_threshold
    /\ cells[c].hypoxic_duration + dt > necrotic_time_threshold
    /\ cells[c].accumulated_drug + (d * drug_sensitivity * dt) \div 10 >= lethal_drug_dose

\* C29: the cause-of-death tag is set exactly in the call where is_alive
\* becomes false and never changes afterwards; a cell that in one tick both
\* passes the necrosis-time threshold and could reach the lethal dose ends
\* the tick Necrotic with cause necrosis and with its dose unchanged
C29_CauseOfDeath ==
    [][/\ \A c \in CellIds : CauseSetAtDeath(c)
       /\ last'.op \in {"update_tumor_cells", "update_tumor_cells_raised"}
          => \A c \in CellIds :
                NecrosisAndLethalDrug(c, last'.oxygen, last'.drug, last'.dt)
                => /\ cells'[c].phase = "necrotic"
                   /\ cells'[c].time_of_death = "necrosis"
                   /\ cells'[c].accumulated_drug = cells[c].accumulated_drug]_vars

\* the same two outcomes when the two methods are called one after the
\* other with the positional arguments the methods accept
C29_MethodsInTickOrder ==
    [][\A c \in CellIds :
          /\ CauseSetAtDeath(c)
          /\ \A o \in OxygenLevels, d \in DrugLevels, dt \in Timesteps :
                NecrosisAndLethalDrug(c, o, d, dt)
                => LET after == absorb_drug(update_oxygen_status(cells[c], o, dt), d, dt)
                   IN  /\ after.phase = "necrotic"
                       /\ after.time_of_death = "necrosis"
                       /\ after.accumulated_drug = cells[c].accumulated_drug]_vars

\* ------------------------------------------------------------------------
\* update_oxygen_status with a record of each cell's current low-oxygen
\* run: the summed dt of its update calls since the last call whose oxygen
\* was not below the hypoxic threshold, kept while the cell is alive.
\* ------------------------------------------------------------------------
InitOxygen ==
    /\ cells \in GeneratedCells
    /\ vessels = <<>>
    /\ nanobots = <<>>
    /\ api_enabled = TRUE
    /\ source_sink = <<>>
    /\ microenv = <<>>
    /\ model = [c \in CellIds |-> [low_run |-> 0]]
    /\ errors = <<>>
    /\ last = NoOp

OxygenUpdate(c, o, dt) ==
    /\ cells' = [cells EXCEPT ![c] = update_oxygen_status(cells[c], o, dt)]
    /\ model' = [model EXCEPT ![c].low_run = IF ~cells[c].is_alive THEN @
                                             ELSE IF o < hypoxic_threshold THEN @ + dt ELSE 0]
    /\ last' = [op |-> "update_oxygen_status", id |-> c, oxygen |-> o, dt |-> dt]
    /\ UNCHANGED <<vessels, nanobots, api_enabled, source_sink, microenv, errors>>

NextOxygen ==
    \/ \E c \in CellIds, o \in OxygenLevels, dt \in Timesteps : OxygenUpdate(c, o, dt)
    \/ \E c \in CellIds, d \in DrugLevels, dt \in Timesteps : AbsorbDrug(c, d, dt)

SpecOxygen == InitOxygen /\ [][NextOxygen]_vars

\* C30: an update_oxygen_status call on a living cell with oxygen below the
\* hypoxic threshold leaves it Hypoxic or Necrotic with its hypoxic duration
\* grown by dt; with oxygen at or above the threshold a Hypoxic cell is
\* Viable again with duration 0.  A Viable cell has duration 0, and a cell
\* turns Necrotic only at the end of an unbroken run of low-oxygen updates
\* whose summed dt exceeds the necrosis-time threshold
C30_HypoxicDuration ==
    [][\A c \in CellIds :
          /\ (last'.op = "update_oxygen_status" /\ last'.id = c /\ cells[c].is_alive)
             => /\ last'.oxygen < hypoxic_threshold
                   => /\ cells'[c].phase \in {"hypoxic", "necrotic"}
                      /\ cells'[c].hypoxic_duration = cells[c].hypoxic_duration + last'.dt
                /\ (last'.oxygen >= hypoxic_threshold /\ cells[c].phase = "hypoxic")
                   => /\ cells'[c].phase = "viable"
                      /\ cells'[c].hypoxic_duration = 0
          /\ cells'[c].phase = "viable" => cells'[c].hypoxic_duration = 0
          /\ (cells[c].phase # "necrotic" /\ cells'[c].phase = "necrotic")
             => /\ last'.op = "update_oxygen_status" /\ last'.id = c
                /\ last'.oxygen < hypoxic_threshold
                /\ model'[c].low_run > necrotic_time_threshold
                /\ model'[c].low_run = cells'[c].hypoxic_duration]_vars

\* a cell went Hypoxic, recovered to Viable with duration 0, and then died
\* of a fresh low-oxygen run that passed the threshold
C30_Witness ==
    \E c \in CellIds :
        /\ last.op = "update_oxygen_status" /\ last.id = c
        /\ cells[c].phase = "necrotic"
        /\ cells[c].hypoxic_duration = 40
        /\ \E d \in CellIds : d # c /\ cells[d].phase = "viable" /\ cells[d].accumulated_drug > 0 /\ model[d].low_run = 0


\* ---------------------------------------------------------------------------
\* The metrics of TumorNanobotModel over ticks whose agent loop runs: two
\* agents that hold a locked cell, the agent loop of step() followed by
\* _update_metrics, and hypoxia acting on the cells between the ticks.

MaxMetricTicks == 3
MetricPayloads == {50, 100}
MetricOxygen == 4
MetricDt == 20

InitMetrics ==
    /\ \E generated \in GeneratedCells : \E dose \in [CellIds -> PriorDoses] :
          cells = [c \in CellIds |->
                     [generated[c] EXCEPT !.accumulated_drug = dose[c]]]
    /\ vessels \in VesselLayouts
    /\ \E payload \in [LoopAgents -> MetricPayloads] :
       \E target \in [LoopAgents -> CellIds] :
          nanobots = [a \in LoopAgents |->
                        [NanobotAgent(cell_position(target[a]), FALSE) EXCEPT
                            !.state = "delivering",
                            !.drug_payload = payload[a],
                            !.target_cell = target[a]]]
    /\ api_enabled = FALSE
    /\ source_sink = ZeroSources
    /\ microenv = <<>>
    /\ model = [ticks |-> 0, metrics |-> update_metrics(cells, nanobots)]
    /\ errors = <<>>
    /\ last = NoOp

\* step() from the agent loop to its end: every agent steps, then the
\* metrics are recomputed; a raised step leaves the metrics as they were
MetricsTick ==
    /\ model.ticks < MaxMetricTicks
    /\ \E ins \in TickInputs(nanobots, [a \in LoopAgents |-> 0]) :
       \E r \in {step_nanobots(1, nanobots, cells, source_sink, errors,
                               [a \in LoopAgents |-> 0], ins)} :
          /\ nanobots' = r.bots
          /\ cells' = r.cells
          /\ source_sink' = r.ss
          /\ errors' = r.errors
          /\ model' = [ticks |-> model.ticks + 1,
                       metrics |-> IF r.raised THEN model.metrics
                                   ELSE update_metrics(r.cells, r.bots)]
          /\ last' = [op |-> "metrics_tick", raised |-> r.raised]
    /\ UNCHANGED <<vessels, api_enabled, microenv>>

\* a cell's oxygen update between two ticks
MetricsOxygen(c) ==
    /\ model.ticks < MaxMetricTicks
    /\ cells' = [cells EXCEPT ![c] = update_oxygen_status(cells[c], MetricOxygen, MetricDt)]
    /\ cells' # cells
    /\ last' = [op |-> "update_oxygen_status", id |-> c]
    /\ UNCHANGED <<vessels, nanobots, api_enabled, source_sink, microenv, model, errors>>

NextMetrics ==
    \/ MetricsTick
    \/ \E c \in CellIds : MetricsOxygen(c)

SpecMetrics == InitMetrics /\ [][NextMetrics]_vars

PhaseCount(cs, phase) == Cardinality({c \in DOMAIN cs : cs[c].phase = phase})

\* C34: after every tick that reaches _update_metrics the metrics are the
\* aggregate of the state: total_deliveries and total_drug_delivered are the
\* sums over the agents, the four phase counters add up to the number of
\* cells, cells_killed is the Apoptotic count; and cells_killed, the necrotic
\* count, total_deliveries and total_drug_delivered do not decrease from one
\* tick to the next.
C34_MetricsAggregate ==
    [][(last'.op = "metrics_tick" /\ ~last'.raised) =>
          LET m == model'.metrics
              before == model.metrics
          IN  /\ m.total_deliveries =
                    nanobots'[1].deliveries_made + nanobots'[2].deliveries_made
              /\ m.total_drug_delivered =
                    nanobots'[1].total_drug_delivered + nanobots'[2].total_drug_delivered
              /\ m.hypoxic_cells + m.viable_cells + m.necrotic_cells + m.apoptotic_cells
                    = Len(cells')
              /\ m.hypoxic_cells = PhaseCount(cells', "hypoxic")
              /\ m.viable_cells = PhaseCount(cells', "viable")
              /\ m.necrotic_cells = PhaseCount(cells', "necrotic")
              /\ m.cells_killed = PhaseCount(cells', "apoptotic")
              /\ m.cells_killed >= before.cells_killed
              /\ m.necrotic_cells >= before.necrotic_cells
              /\ m.total_deliveries >= before.total_deliveries
              /\ m.total_drug_delivered >= before.total_drug_delivered]_vars

C34_Witness ==
    /\ last.op = "metrics_tick"
    /\ ~last.raised
    /\ model.ticks >= 2
    /\ model.metrics.total_deliveries = 2
    /\ model.metrics.total_drug_delivered > 100
    /\ model.metrics.cells_killed = 1
    /\ model.metrics.necrotic_cells = 1

\* ---------------------------------------------------------------------------
\* Phase and life of the cells of a generated tumor

PhaseMatchesLife(cell) ==
    /\ cell.is_alive <=> cell.phase \in {"viable", "hypoxic"}
    /\ ~cell.is_alive <=> cell.phase \in {"necrotic", "apoptotic"}
    /\ cell.phase = "necrotic" => cell.time_of_death = "necrosis"
    /\ cell.phase = "apoptotic" => cell.time_of_death = "apoptosis"
    /\ cell.is_alive => cell.time_of_death = "none"

\* C35: in every reachable state of a generated tumor a cell is alive iff its
\* phase is Viable or Hypoxic, and dead iff its phase is Necrotic or Apoptotic
\* with cause of death necrosis resp. apoptosis; the number of living cells is
\* the number of Viable plus the number of Hypoxic cells, and every Hypoxic
\* cell, the cells the queen steers toward, is alive.
C35_PhaseMatchesLife ==
    /\ \A c \in CellIds : PhaseMatchesLife(cells[c])
    /\ Cardinality(get_living_cells(cells)) =
          Cardinality(get_cells_in_phase(cells, "viable"))
          + Cardinality(get_cells_in_phase(cells, "hypoxic"))
    /\ get_cells_in_phase(cells, "hypoxic") \subseteq get_living_cells(cells)

\* one cell has died of necrosis, the other is Hypoxic, alive and dosed
C35_Witness ==
    /\ last.op = "update_oxygen_status"
    /\ cells[last.id].phase = "necrotic"
    /\ ~cells[last.id].is_alive
    /\ \E c \in CellIds :
          /\ cells[c].phase = "hypoxic"
          /\ cells[c].is_alive
          /\ cells[c].accumulated_drug > 0

\* ---------------------------------------------------------------------------
\* The references an agent holds in each state

\* C36: at the end of every agent step the agent holds a target cell iff its
\* state is Targeting or Delivering, it holds a target vessel only if its
\* state is Returning or Reloading, and an agent in Reloading holds a target
\* vessel.
C36_TargetsMatchState ==
    \A a \in DOMAIN nanobots :
        /\ nanobots[a].target_cell # NoRef
              <=> nanobots[a].state \in {"targeting", "delivering"}
        /\ nanobots[a].target_vessel # NoRef
              => nanobots[a].state \in {"returning", "reloading"}
        /\ nanobots[a].state = "reloading" => nanobots[a].target_vessel # NoRef

\* an agent that has delivered has arrived at its vessel and is reloading
C36_Witness ==
    /\ last.op = "step"
    /\ nanobots[last.id].state = "reloading"
    /\ nanobots[last.id].target_vessel # NoRef
    /\ nanobots[last.id].target_cell = NoRef
    /\ nanobots[last.id].deliveries_made >= 1

\* ---------------------------------------------------------------------------
\* An agent in Targeting stepped tick after tick toward a locked cell that
\* stays alive.  step() calls every agent in every tick, so the agent's step
\* is taken again and again for as long as it can change anything.

ChaseAgent == 1

\* the agent has just locked a living cell, from any place of the domain
InitChase ==
    /\ cells \in GeneratedCells
    /\ vessels \in VesselLayouts
    /\ \E target \in CellIds, x \in 0 .. domain_size :
          /\ nanobots = <<[NanobotAgent(x, FALSE) EXCEPT
                             !.state = "targeting",
                             !.target_cell = target]>>
          /\ model = [start |-> Abs(cell_position(target) - x)]
    /\ api_enabled = FALSE
    /\ source_sink = ZeroSources
    /\ microenv = <<>>
    /\ errors = <<>>
    /\ last = NoOp

\* NanobotAgent.step of an agent in Targeting
ChaseStep ==
    /\ nanobots[ChaseAgent].state = "targeting"
    /\ LET r == step(nanobots[ChaseAgent], cells, source_sink, 0,
                     NoInput.action, NoInput.trail, NoInput.direction)
       IN  /\ nanobots' = [nanobots EXCEPT ![ChaseAgent] = r.bot]
           /\ cells' = r.cells
           /\ source_sink' = r.ss
    /\ last' = [op |-> "step", id |-> ChaseAgent]
    /\ UNCHANGED <<vessels, api_enabled, microenv, model, errors>>

NextChase == ChaseStep

SpecChase == InitChase /\ [][NextChase]_vars /\ WF_vars(ChaseStep)

\* C37: an agent in Targeting whose locked cell stays alive eventually enters
\* Delivering, from every starting distance.
C37_TargetingReachesDelivering ==
    (nanobots[ChaseAgent].state = "targeting")
        ~> (nanobots[ChaseAgent].state = "delivering")

\* from a starting distance that is not 5 more than a multiple of the speed
\* the agent does enter Delivering
C37_OffGridDistancesDeliver ==
    (nanobots[ChaseAgent].state = "targeting" /\ model.start % speed # delivery_distance)
        ~> (nanobots[ChaseAgent].state = "delivering")

\* the agent has stepped over its cell and stands as far behind it as before
C37_Overshoot ==
    /\ last.op = "step"
    /\ nanobots[ChaseAgent].state = "targeting"
    /\ cells[nanobots[ChaseAgent].target_cell].is_alive
    /\ Abs(cell_position(nanobots[ChaseAgent].target_cell) - nanobots[ChaseAgent].position)
          = delivery_distance

\* ---------------------------------------------------------------------------
\* An agent in Returning stepped tick after tick toward a vessel of a
\* generated geometry, on the line through the tumor centre.

ReturnAgent == 1
TumorRadii == {20, 40}
ReturnPayloads == {0, 5, 50}

\* create_simple_tumor_environment: the centre of the domain
center == domain_size \div 2

\* r = uniform(0.9 * tumor_radius, 1.1 * tumor_radius): both ends and the middle
vessel_radii(tumor_radius) ==
    {(9 * tumor_radius) \div 10, tumor_radius, (11 * tumor_radius) \div 10}

\* x = center + r * cos(theta), on the line: theta = 0 and theta = pi
vessel_positions(tumor_radius) ==
    {center + r : r \in vessel_radii(tumor_radius)}
    \cup {center - r : r \in vessel_radii(tumor_radius)}

\* n_vessels = int(2 * pi * tumor_radius * vessel_density), vessel_density 0.01
n_vessels(tumor_radius) == (628 * tumor_radius) \div 10000

\* the vessel lists _generate_peripheral_vasculature can give; nothing keeps
\* a vessel inside the domain
GeneratedVessels ==
    UNION {[1 .. n_vessels(R) -> vessel_positions(R)] : R \in TumorRadii}

\* the agent as _deliver_drug leaves it: no target cell, the nearest vessel,
\* state Returning
InitReturn ==
    /\ cells \in GeneratedCells
    /\ vessels \in GeneratedVessels
    /\ \E x \in 0 .. domain_size, payload \in ReturnPayloads :
          nanobots = <<[NanobotAgent(x, FALSE) EXCEPT
                          !.state = "returning",
                          !.drug_payload = payload,
                          !.deliveries_made = 1,
                          !.total_drug_delivered = max_payload - payload,
                          !.target_vessel = find_nearest_vessel(vessels, x)]>>
    /\ api_enabled = FALSE
    /\ source_sink = ZeroSources
    /\ microenv = <<>>
    /\ model = [reloads |-> 0]
    /\ errors = <<>>
    /\ last = NoOp

\* NanobotAgent.step of an agent in Returning or Reloading
ReturnStep ==
    /\ nanobots[ReturnAgent].state \in {"returning", "reloading"}
    /\ LET r == step(nanobots[ReturnAgent], cells, source_sink, 0,
                     NoInput.action, NoInput.trail, NoInput.direction)
       IN  /\ nanobots' = [nanobots EXCEPT ![ReturnAgent] = r.bot]
           /\ cells' = r.cells
           /\ source_sink' = r.ss
    /\ model' = [reloads |-> model.reloads
                               + (IF nanobots[ReturnAgent].state = "reloading" THEN 1 ELSE 0)]
    /\ last' = [op |-> "step", id |-> ReturnAgent]
    /\ UNCHANGED <<vessels, api_enabled, microenv, errors>>

NextReturn == ReturnStep

SpecReturn == InitReturn /\ [][NextReturn]_vars /\ WF_vars(ReturnStep)

Refilled(n) == n.state = "searching" /\ n.drug_payload * 10 >= max_payload * 9

\* the least distance from a point of the domain to the vessel
reach(v) == Abs(vessels[v] - clip(vessels[v], 0, domain_size))

\* C38: with at least one vessel, an agent that enters Returning eventually
\* enters Reloading and then Searching with a payload of at least 90% of the
\* maximum, for every vessel position the geometry can generate.
C38_ReturningReloads ==
    /\ (Len(vessels) >= 1 /\ nanobots[ReturnAgent].state = "returning")
          ~> (nanobots[ReturnAgent].state = "reloading")
    /\ (nanobots[ReturnAgent].state = "reloading") ~> Refilled(nanobots[ReturnAgent])

\* when the target vessel lies less than the arrival radius outside the
\* domain the agent does reload and search again
C38_VesselWithinReach ==
    (/\ nanobots[ReturnAgent].state = "returning"
     /\ nanobots[ReturnAgent].target_vessel # NoRef
     /\ reach(nanobots[ReturnAgent].target_vessel) < vessel_distance)
        ~> Refilled(nanobots[ReturnAgent])

\* the agent stands on the edge of the domain, its vessel out of reach
C38_StuckAtEdge ==
    /\ last.op = "step"
    /\ nanobots[ReturnAgent].state = "returning"
    /\ nanobots[ReturnAgent].position \in {0, domain_size}
    /\ reach(nanobots[ReturnAgent].target_vessel) >= vessel_distance

\* ---------------------------------------------------------------------------
\* An agent in Delivering stepped tick after tick, from every payload and every
\* prior dose of its target; nothing limits the number of doses.

\* NanobotAgent.step of an agent in Delivering
DoseStep(a) ==
    /\ nanobots[a].state = "delivering"
    /\ LET r == step(nanobots[a], cells, source_sink, 0,
                     NoInput.action, NoInput.trail, NoInput.direction)
       IN  /\ nanobots' = [nanobots EXCEPT ![a] = r.bot]
           /\ cells' = r.cells
           /\ source_sink' = r.ss
           /\ last' = [op |-> "deliver", id |-> a,
                       released |-> r.bot.total_drug_delivered
                                       - nanobots[a].total_drug_delivered]
    /\ UNCHANGED <<vessels, api_enabled, microenv, model, errors>>

NextDose == \E a \in AgentIds : DoseStep(a)

SpecDose == InitDeliver /\ [][NextDose]_vars /\ WF_vars(NextDose)

\* the agent has dosed its target and is still Delivering, the same cell
\* locked: the next tick doses that cell again
StaysDelivering ==
    /\ last.op = "deliver"
    /\ last.released > 0
    /\ nanobots[last.id].state = "delivering"
    /\ nanobots[last.id].target_cell # NoRef

\* C39: an agent in Delivering whose target is alive after the dose and
\* whose remaining payload is at least the minimum threshold remains
\* Delivering with the same cell locked, and with a release of 100 per tick
\* and a maximum payload of 100 an agent does come to dose one target in
\* consecutive ticks.
C39_RepeatedDosing ==
    /\ [][\A a \in AgentIds :
            (/\ last'.op = "deliver" /\ last'.id = a
             /\ nanobots[a].target_cell # NoRef
             /\ cells'[nanobots[a].target_cell].is_alive
             /\ nanobots'[a].drug_payload >= min_payload)
            => /\ nanobots'[a].state = "delivering"
               /\ nanobots'[a].target_cell = nanobots[a].target_cell]_vars
    /\ <>StaysDelivering

\* no Delivering step leaves the agent Delivering: a release empties the
\* payload, and an empty payload is below the minimum threshold
C39_EveryDoseEndsDelivering ==
    [][\A a \in AgentIds :
          (last'.op = "deliver" /\ last'.id = a)
          => /\ nanobots'[a].state \in {"returning", "searching"}
             /\ nanobots'[a].drug_payload = 0
             /\ nanobots'[a].target_cell = NoRef]_vars

\* a dose of 40 has left the target alive, and the agent is Returning
C39_SurvivedDose ==
    /\ last.op = "deliver"
    /\ last.released = 40
    /\ nanobots[last.id].state = "returning"
    /\ nanobots[last.id].deliveries_made = 1
    /\ \E c \in CellIds : cells[c].is_alive /\ cells[c].accumulated_drug \in {40, 90}

\* ---------------------------------------------------------------------------
\* The voxel a position reads and the voxel it writes, on the x axis, for
\* positions inside and outside the domain

ProbeMargin == 40
ProbePositions == (0 - ProbeMargin) .. (domain_size + ProbeMargin)

\* round(): to the nearest integer, a half to the even neighbour
round_half_even(a, b) ==
    LET q == a \div b
        rest == a % b
    IN  IF 2 * rest < b THEN q
        ELSE IF 2 * rest > b THEN q + 1
        ELSE IF q % 2 = 0 THEN q ELSE q + 1

\* Microenvironment.get_concentration_at, the x index it reads:
\* i = (x - x0) / dx, clipped to [0, nx - 1], then int(round(i))
concentration_index(x) ==
    IF x <= 0 THEN 0
    ELSE IF x >= (nx - 1) * voxel_size THEN nx - 1
    ELSE round_half_even(x, voxel_size)

InitVoxel ==
    /\ cells = <<>>
    /\ vessels = <<>>
    /\ nanobots = <<>>
    /\ api_enabled = FALSE
    /\ source_sink = ZeroSources
    /\ microenv = <<>>
    /\ model = <<>>
    /\ errors = <<>>
    /\ last = NoOp

\* get_concentration_at(name, p)
ReadAt(x) ==
    /\ last' = [op |-> "get_concentration_at", position |-> x,
                voxel |-> concentration_index(x)]
    /\ UNCHANGED <<cells, vessels, nanobots, api_enabled, source_sink, microenv,
                   model, errors>>

\* add_source(position_to_voxel(p), amount) on cleared accumulators
DepositAt(x) ==
    /\ source_sink' = add_source(ZeroSources, "drug", position_to_voxel(x), 1)
    /\ last' = [op |-> "position_to_voxel", position |-> x,
                voxel |-> position_to_voxel(x)]
    /\ UNCHANGED <<cells, vessels, nanobots, api_enabled, microenv, model, errors>>

NextVoxel ==
    \/ \E x \in ProbePositions : ReadAt(x)
    \/ \E x \in ProbePositions : DepositAt(x)

SpecVoxel == InitVoxel /\ [][NextVoxel]_vars

\* C40: for every position, get_concentration_at reads the voxel that
\* position_to_voxel returns, and both yield a valid voxel index, also for
\* positions outside the domain.
C40_ReadsTheDepositVoxel ==
    /\ last.op = "get_concentration_at"
          => /\ last.voxel = position_to_voxel(last.position)
             /\ last.voxel \in Voxels
    /\ last.op = "position_to_voxel" => last.voxel \in Voxels

\* both indices are valid for every position, and they are equal for the
\* positions in the lower half of a voxel spacing and outside the domain
C40_IndicesValid ==
    /\ last.op \in {"get_concentration_at", "position_to_voxel"} => last.voxel \in Voxels
    /\ (/\ last.op = "get_concentration_at"
        /\ \/ last.position <= 0
           \/ last.position >= (nx - 1) * voxel_size
           \/ 2 * (last.position % voxel_size) < voxel_size)
          => last.voxel = position_to_voxel(last.position)

\* a position in the upper half of a voxel spacing reads the next voxel
C40_ReadsTheNextVoxel ==
    /\ last.op = "get_concentration_at"
    /\ last.position = 36
    /\ last.voxel = position_to_voxel(last.position) + 1

====
